---- MODULE Spec2Model ----
(***************************************************************************)
(* Verification model of the SEC filing intelligence pipeline.             *)
(*                                                                         *)
(* Part 1: the reliable queues (download, chunk/entity, diff), in their    *)
(*         Redis-backed and in-memory implementations.                     *)
(* Part 2: the parse queue and the parser worker loop.                     *)
(* Part 3: the Groq daily token budget manager.                            *)
(*                                                                         *)
(* Each part has its own specification (Spec, ParseSpec, BudgetSpec); the  *)
(* variables of the other parts stay at their initial value.               *)
(***************************************************************************)
EXTENDS Integers, Sequences, FiniteSets, TLC

(***************************************************************************)
(* Bounds of the model.                                                    *)
(***************************************************************************)
\* number of uuid4 tokens (= completed pops) one behaviour may draw
MaxTokens == 3
\* the clock time.time() runs over 0..MaxTime
MaxTime == 2
\* visibility_timeout, in clock ticks
VisibilityTimeout == 1

Jobs == {"j1", "j2"}
Workers == {"w1", "w2"}
Kinds == {"download", "chunk", "diff"}
Impls == {"redis", "memory"}

VARIABLES
    \* ---- reliable queue: configuration
    impl,               \* "redis" | "memory": which class is instantiated
    kind,               \* "download" | "chunk" | "diff"
    \* ---- reliable queue: shared store
    queue,              \* Redis list <queue_name> / asyncio.Queue _queue; index 1 is the head
    dedupe,             \* Redis set <queue>:dedupe / set _dedupe
    processing,         \* in-memory dict _processing: job id -> (payload, expires, token)
    processing_tokens,  \* in-memory diff queue dict _processing_tokens: token -> job id
    plist,              \* Redis list <queue>:processing; index 1 is the head
    zset,               \* Redis zset <queue>:processing:zset: token -> expiry
    hpayload,           \* Redis hash <queue>:processing:payload: token -> payload
    htoken,             \* Redis hash <queue>:processing:token: job id -> token
    now,                \* time.time()
    nextToken,          \* the next uuid4 to be drawn
    \* ---- reliable queue: consumers
    pc,                 \* position of each consumer inside pop / ack
    held,               \* the message each consumer got from pop and has not acked or dropped
    loc,                \* locals of the call a consumer is in
    \* ---- reliable queue: history
    reclaims,           \* per token: how often expiry recovery re-pushed its payload
    \* ---- parse queue and parser workers
    parseq,             \* Redis list <parser queue> / asyncio.Queue of ParseTask
    ppc,                \* position of each parser worker
    ptask,              \* the ParseTask a parser worker is handling
    pdone,              \* accessions whose parse task was handled to the end
    plost,              \* accessions whose parse task was popped and abandoned
    ppushes,            \* number of pushes made so far
    \* ---- token budget
    counter,            \* Redis key budget:<service>:<model>:<yyyymmdd>
    hasTtl,             \* whether the key carries an expiry
    exhaustions,        \* GROQ_BUDGET_EXHAUSTIONS_TOTAL
    bpc,                \* position of each budget client
    bres,               \* the reservation / call in progress of each budget client
    committed,          \* sum of max(used, 0) over finalised reservations
    gauge,              \* GROQ_BUDGET_USAGE_TOKENS of the scope, as last set by _update_metrics
    \* ---- diff runs: the FilingDiff row of one current filing, its tasks and workers
    dexists,            \* whether the FilingDiff row exists
    dstatus,            \* FilingDiff.status
    dexpected,          \* FilingDiff.expected_sections
    dprocessed,         \* FilingDiff.processed_sections
    drows,              \* section ordinals that have FilingSectionDiff rows
    dtopush,            \* DiffTasks the parser built and has not pushed yet
    dq,                 \* section ordinals whose DiffTask waits in the diff queue
    dproc,              \* diff queue processing index: ordinal -> consumer of the delivery
    dheld,              \* the DiffTask each diff worker holds and how far it has got
    dout,               \* per ordinal: outcome of its last handling since the last scheduling
    dscheds,            \* number of scheduling runs so far
    dredel,             \* number of visibility-timeout redeliveries so far
    \* ---- one filing (accession): its row, its sections, its download and parse tasks
    fstatus,            \* Filing.status, "none" while the row does not exist
    fsections,          \* committed FilingSection rows: <<ordinal, parse commit>>
    fcommit,            \* number of parse transactions committed so far
    fparseq,            \* ParseTasks for the accession waiting in the parse queue
    fpc,                \* position of each parser worker
    ftxn,               \* the open parse transaction of each parser worker
    dlpc,               \* position of each download worker
    dlart,              \* per download worker: artifacts of the task, artifacts done
    dlres,              \* per download worker: what the handling of its task did so far
    dldeliv,            \* deliveries of the download task so far
    dlacked,            \* whether the download task has been acked
    fjobs,              \* chunk-job batches and diff-job batches the parsers have enqueued
    \* ---- analyses: the filing_analyses table and the workers that write it
    arows,              \* FilingAnalysis rows: id -> [job, writes]
    apc,                \* position of each worker inside _persist_analysis
    aread,              \* per worker: the job it persists and the row id its SELECT found
    aruns,              \* calls of _persist_analysis so far
    arejected,          \* transactions the unique constraint on job_id rejected
    \* ---- chunk planning: the parser's fan-out of one filing to the summary queue
    kclock,             \* int(time.time())
    ktasks,             \* the ChunkTasks of the last plan, in order
    kidx,               \* how many of them the fan-out has pushed
    kaccepted,          \* how many of those pushes the queue accepted
    kq,                 \* the summary queue
    kdedupe,            \* its dedupe set
    kplans,             \* plans made so far
    \* ---- ingestion: the pollers, the shared seen set and the download publisher
    seen,               \* the accession numbers marked seen in the state store
    published,          \* download tasks published so far, per accession number
    pollq,              \* per poller: the feed entries of its cycle not yet looked at
    pollpc,             \* position of each poller inside _run_once
    pollcycles,         \* poll cycles started so far
    polldups,           \* accession numbers for which mark_seen answered False
    \* ---- issuers: the companies table and the download workers that fill it
    crows,              \* number of committed Company rows per cik
    cpc,                \* position of each download worker inside _persist_metadata
    ctask,              \* the DownloadTask each download worker handles
    cnew,               \* per worker: whether the issuer had no row when it began
    cres,               \* per worker: how the handling of its task ended
    cruns,              \* download tasks handled so far
    \* ---- service stop: the download service, its stop event and its worker tasks
    stop_event,         \* DownloadService._stop_event is set
    svjob,              \* per download task: "none", "queued", "inflight" or "acked"
    svpc,               \* per worker task: the await at which run is suspended, or "ended"
    svheld,             \* per worker task: the message it popped
    svcancelled,        \* per worker task: a CancelledError is on its way out of run
    svhandled,          \* the download tasks whose _handle_task ran to its end
    \* ---- backpressure: one QueueBackpressure gate and the workers that wait on it
    gconf,              \* the gate's thresholds, NoGate before it is constructed
    gpaused,            \* QueueBackpressure._paused
    gpc,                \* per caller: "out", "sample" or "sleep" inside wait_if_needed
    gcall,              \* per caller: what its current or last call sampled, emitted and did
    glast,              \* the last backpressure event emitted, "none" before the first
    gsamples,           \* depth samples taken so far
    \* ---- LLM workers: one chunk job, the summary or entity workers that handle it
    ljob,               \* the job: which worker kind consumes it, "none" before it is pushed
    lq,                 \* the job's message: "none", "queued", "inflight" or "acked"
    lpc,                \* per worker: position inside run and _handle_message
    lrun,               \* per worker: what its current or last handling of the job did
    lanalysis,          \* number of writes of the job's FilingAnalysis row
    lentities,          \* number of writes of the job's FilingEntity rows
    lparseerrors,       \* the error counter labelled parse
    ldeliv,             \* deliveries of the job so far
    \* ---- Diff handler: one DiffTask of a FilingDiff with one expected section
    htask,              \* the task's two sections as _load_metadata finds them
    hq,                 \* the task's message: "none", "queued", "inflight" or "acked"
    hpc,                \* per worker: position inside run and _handle_message
    hrun,               \* per worker: what its current or last handling of the task did
    hstatus,            \* FilingDiff.status
    hprocessed,         \* FilingDiff.processed_sections
    hrows,              \* the FilingSectionDiff rows of the task's ordinal
    hanalysis,          \* whether a FilingAnalysis row with the task's job_id exists
    hdeliv,             \* deliveries of the task so far
    herror,             \* FilingDiff.last_error: whether set, its length, the length of the message it was cut from
    \* ---- Diff scheduling: a current filing, its previous filing and the FilingDiff between them
    ssections,          \* the ordinals of the sections of the current and of the previous filing
    srecord,            \* the FilingDiff row: exists, status, expected_sections, processed_sections
    stasks,             \* the DiffTasks pushed by the last scheduling, in order
    spc,                \* "parsed" once sections are committed and scheduling is due, "scheduled" after it
    \* ---- blobs: the filing_blobs rows of one filing and the download workers that upsert them
    blobs,              \* the FilingBlob rows of the filing: id, kind, value (location and checksum)
    upsert,             \* per download worker: position in _persist_metadata, the artifact's kind and value, the row its SELECT found
    upserts,            \* handlings of an artifact started so far
    \* ---- chunking: one call of ChunkPlanner._chunk_section
    chsection,          \* the paragraphs of the section, in order: the number of words of each
    chresult            \* whether _chunk_section has returned, and the chunks it returned

qvars == <<impl, kind, queue, dedupe, processing, processing_tokens, plist, zset,
           hpayload, htoken, now, nextToken, pc, held, loc, reclaims>>
pvars == <<parseq, ppc, ptask, pdone, plost, ppushes>>
bvars == <<counter, hasTtl, exhaustions, bpc, bres, committed, gauge>>
dvars == <<dexists, dstatus, dexpected, dprocessed, drows, dtopush, dq, dproc, dheld,
           dout, dscheds, dredel>>
\* the variables of parts 4 and later
fvars == <<fstatus, fsections, fcommit, fparseq, fpc, ftxn, dlpc, dlart, dlres, dldeliv,
           dlacked, fjobs>>
avars == <<arows, apc, aread, aruns, arejected>>
kvars == <<kclock, ktasks, kidx, kaccepted, kq, kdedupe, kplans>>
ivars == <<seen, published, pollq, pollpc, pollcycles, polldups>>
cvars == <<crows, cpc, ctask, cnew, cres, cruns>>
svvars == <<stop_event, svjob, svpc, svheld, svcancelled, svhandled>>
gvars == <<gconf, gpaused, gpc, gcall, glast, gsamples>>
lvars == <<ljob, lq, lpc, lrun, lanalysis, lentities, lparseerrors, ldeliv>>
hvars == <<htask, hq, hpc, hrun, hstatus, hprocessed, hrows, hanalysis, hdeliv,
          herror>>
schvars == <<ssections, srecord, stasks, spc>>
blvars == <<blobs, upsert, upserts>>
chvars == <<chsection, chresult>>
xvars == <<dvars, fvars, avars, kvars, ivars, cvars, svvars, gvars, lvars, hvars, schvars, blvars, chvars>>
vars == <<qvars, pvars, bvars, xvars>>

(***************************************************************************)
(* Part 1. Reliable queues.                                                *)
(***************************************************************************)

\* json.dumps(task.to_payload(), sort_keys=True, ...): the payload is a string that
\* embeds the job id; two tasks with the same fields serialise to the same string.
Serialize(job) == <<"json", job>>

\* json.loads(payload)["job_id"] / ["accession_number"]
JobIdOf(payload) == payload[2]

\* Task.from_payload(json.loads(payload)); a task is identified by its job id, the
\* other fields (strings, ints, an ISO timestamp) survive the round trip unchanged
Deserialize(payload) == payload[2]

NoPayload == <<>>
NoMsg == [job |-> "-", payload |-> NoPayload, token |-> 0]
NoLoc == [expired |-> <<>>, payload |-> NoPayload]

\* the set S as a sequence in ascending order of key[_]
RECURSIVE SortBy(_, _)
SortBy(S, key) ==
    IF S = {} THEN <<>>
    ELSE LET m == CHOOSE x \in S :
                      \A y \in S : key[x] <= key[y]
         IN  <<m>> \o SortBy(S \ {m}, key)

\* list.remove of every element equal to v (LREM key 0 v)
RECURSIVE Lrem(_, _)
Lrem(s, v) ==
    IF s = <<>> THEN <<>>
    ELSE IF Head(s) = v THEN Lrem(Tail(s), v)
    ELSE <<Head(s)>> \o Lrem(Tail(s), v)

\* dict / hash without key k
Without(f, k) == [x \in DOMAIN f \ {k} |-> f[x]]
\* dict / hash with f[k] = v
With(f, k, v) == [x \in DOMAIN f \cup {k} |-> IF x = k THEN v ELSE f[x]]

Min(a, b) == IF a <= b THEN a ELSE b

\* requeue_batch_size defaults
RequeueBatchSize ==
    IF kind = "download" THEN 50 ELSE IF kind = "chunk" THEN 100 ELSE 200

\* pops begun and not finished: each will draw one token
PopsInFlight ==
    Cardinality({w \in Workers :
                    pc[w] \in {"get", "scan_hget", "scan_pipe", "brpop", "register"}})

TokenLeft == (nextToken - 1) + PopsInFlight < MaxTokens

QueueFrame == UNCHANGED <<pvars, bvars, xvars>>

----------------------------------------------------------------------------
(* In-memory queues: every method body runs without a suspension point     *)
(* except pop, which suspends in queue.get().                              *)

\* InMemory*Queue.push
MemPushBody(j) ==
    IF j \in dedupe
    THEN /\ UNCHANGED <<queue, dedupe>>
    ELSE /\ dedupe' = dedupe \cup {j}
         /\ queue' = Append(queue, j)

MemPush(j) ==
    /\ impl = "memory"
    /\ MemPushBody(j)
    /\ UNCHANGED <<impl, kind, processing, processing_tokens, plist, zset, hpayload,
                   htoken, now, nextToken, pc, held, loc, reclaims>>
    /\ QueueFrame

\* the test `expires <= now` (download, chunk) or `expiry < now` (diff)
MemIsExpired(entry) ==
    IF kind = "diff" THEN entry.expires < now ELSE entry.expires <= now

MemExpiredJobs == {j \in DOMAIN processing : MemIsExpired(processing[j])}

\* dicts iterate in insertion order, which is the order of the pops, i.e. of the tokens
MemExpiredSeq ==
    LET jobs == SortBy(MemExpiredJobs, [j \in MemExpiredJobs |-> processing[j].token])
    IN  [i \in DOMAIN jobs |-> Deserialize(processing[jobs[i]].payload)]

\* the dedupe set after _requeue_expired
MemRequeueDedupe ==
    IF kind = "diff" THEN dedupe \ MemExpiredJobs ELSE dedupe

\* InMemory*Queue._requeue_expired
MemRequeueExpired ==
    /\ processing' = [j \in DOMAIN processing \ MemExpiredJobs |-> processing[j]]
    /\ processing_tokens' =
           [t \in DOMAIN processing_tokens \ {processing[j].token : j \in MemExpiredJobs}
               |-> processing_tokens[t]]
    /\ dedupe' = MemRequeueDedupe
    /\ queue' = queue \o MemExpiredSeq
    /\ reclaims' = [t \in DOMAIN reclaims |->
                        IF \E j \in MemExpiredJobs : processing[j].token = t
                        THEN reclaims[t] + 1 ELSE reclaims[t]]

\* InMemory*Queue.pop, up to the suspension in queue.get()
MemPopBegin(w) ==
    /\ impl = "memory"
    /\ pc[w] = "idle"
    /\ held[w] = NoMsg
    /\ TokenLeft
    /\ IF VisibilityTimeout <= 0
       THEN UNCHANGED <<processing, processing_tokens, dedupe, queue, reclaims>>
       ELSE MemRequeueExpired
    /\ pc' = [pc EXCEPT ![w] = "get"]
    /\ UNCHANGED <<impl, kind, plist, zset, hpayload, htoken, now, nextToken, held, loc>>
    /\ QueueFrame

\* a token source that hands the previous token out again
ReusedToken == IF nextToken > 1 THEN nextToken - 1 ELSE nextToken

\* the token of a new message: uuid.uuid4().hex
FreshToken == nextToken

\* InMemory*Queue.pop, from the return of queue.get() to the return of pop
MemPopGet(w) ==
    /\ impl = "memory"
    /\ pc[w] = "get"
    /\ queue # <<>>
    /\ LET job == Head(queue)
           payload == Serialize(job)
           expires == now + VisibilityTimeout
           token == FreshToken
       IN  /\ queue' = Tail(queue)
           /\ processing' =
                  With(processing, job,
                       [payload |-> payload, expires |-> expires, token |-> token])
           /\ processing_tokens' =
                  IF kind = "diff" THEN With(processing_tokens, token, job)
                  ELSE processing_tokens
           /\ held' = [held EXCEPT ![w] = [job |-> job, payload |-> payload, token |-> token]]
    /\ nextToken' = nextToken + 1
    /\ pc' = [pc EXCEPT ![w] = "idle"]
    /\ UNCHANGED <<impl, kind, dedupe, plist, zset, hpayload, htoken, now, loc, reclaims>>
    /\ QueueFrame

\* InMemory*Queue.pop: queue.get() times out, pop returns None
MemPopTimeout(w) ==
    /\ impl = "memory"
    /\ pc[w] = "get"
    /\ queue = <<>>
    /\ pc' = [pc EXCEPT ![w] = "idle"]
    /\ UNCHANGED <<impl, kind, queue, dedupe, processing, processing_tokens, plist, zset,
                   hpayload, htoken, now, nextToken, held, loc, reclaims>>
    /\ QueueFrame

\* whether ack(message) finds the entry it may remove
MemAckAccepts(m) ==
    /\ m.job \in DOMAIN processing
    /\ \/ kind = "diff"
       \/ /\ processing[m.job].token = m.token
          /\ processing[m.job].payload = m.payload

\* InMemory*Queue.ack
MemAck(w) ==
    /\ impl = "memory"
    /\ pc[w] = "idle"
    /\ held[w] # NoMsg
    /\ LET m == held[w] IN
       IF MemAckAccepts(m)
       THEN /\ processing' = Without(processing, m.job)
            /\ processing_tokens' = Without(processing_tokens, processing[m.job].token)
            /\ dedupe' = dedupe \ {m.job}
       ELSE /\ UNCHANGED <<processing, processing_tokens, dedupe>>
    /\ held' = [held EXCEPT ![w] = NoMsg]
    /\ UNCHANGED <<impl, kind, queue, plist, zset, hpayload, htoken, now, nextToken, pc,
                   loc, reclaims>>
    /\ QueueFrame

----------------------------------------------------------------------------
(* Redis queues: every Redis command, Lua script and MULTI/EXEC pipeline    *)
(* is one atomic step; a consumer can be suspended, cancelled or killed     *)
(* between two of them.                                                     *)

\* Redis*Queue.push: the Lua script (SADD, then RPUSH if the member is new)
RedisPushBody(j) ==
    IF j \in dedupe
    THEN /\ UNCHANGED <<queue, dedupe>>
    ELSE /\ dedupe' = dedupe \cup {j}
         /\ queue' = Append(queue, Serialize(j))

RedisPush(j) ==
    /\ impl = "redis"
    /\ RedisPushBody(j)
    /\ UNCHANGED <<impl, kind, processing, processing_tokens, plist, zset, hpayload,
                   htoken, now, nextToken, pc, held, loc, reclaims>>
    /\ QueueFrame

\* the first `n` elements of s
Take(s, n) == SubSeq(s, 1, Min(n, Len(s)))

\* ZRANGEBYSCORE zset -inf now LIMIT 0 requeue_batch_size (download, chunk)
ZRangeByScore == Take(SortBy({t \in DOMAIN zset : zset[t] <= now}, zset), RequeueBatchSize)

\* ZPOPMIN zset requeue_batch_size (diff): the members of lowest score, whatever the score
ZPopMin == Take(SortBy(DOMAIN zset, zset), RequeueBatchSize)

\* the tokens _requeue_expired selects for recovery
RedisSelectExpired == IF kind = "diff" THEN ZPopMin ELSE ZRangeByScore

Range(s) == {s[i] : i \in DOMAIN s}

\* Redis*Queue.pop -> _requeue_expired: the command that selects the tokens.
\* loc.expired keeps each selected token with its score (ZPOPMIN returns both).
RedisScan(w) ==
    /\ impl = "redis"
    /\ pc[w] = "idle"
    /\ held[w] = NoMsg
    /\ TokenLeft
    /\ LET tokens == IF VisibilityTimeout <= 0 THEN <<>> ELSE RedisSelectExpired
           expired == [i \in DOMAIN tokens |-> <<tokens[i], zset[tokens[i]]>>]
       IN  /\ zset' = IF kind = "diff" THEN [t \in DOMAIN zset \ Range(tokens) |-> zset[t]]
                      ELSE zset
           /\ loc' = [loc EXCEPT ![w] = [expired |-> expired, payload |-> NoPayload]]
           /\ pc' = [pc EXCEPT ![w] = IF tokens = <<>> THEN "brpop" ELSE "scan_hget"]
    /\ UNCHANGED <<impl, kind, queue, dedupe, processing, processing_tokens, plist,
                   hpayload, htoken, now, nextToken, held, reclaims>>
    /\ QueueFrame

\* _requeue_expired: HGET <queue>:processing:payload token
RedisScanHget(w) ==
    /\ impl = "redis"
    /\ pc[w] = "scan_hget"
    /\ LET token == Head(loc[w].expired)[1] IN
       loc' = [loc EXCEPT ![w].payload =
                   IF token \in DOMAIN hpayload THEN hpayload[token] ELSE NoPayload]
    /\ pc' = [pc EXCEPT ![w] = "scan_pipe"]
    /\ UNCHANGED <<impl, kind, queue, dedupe, processing, processing_tokens, plist, zset,
                   hpayload, htoken, now, nextToken, held, reclaims>>
    /\ QueueFrame

\* the queue list after the recovery pipeline for `payload` (LPUSH: at the head)
RedisRequeued(payload) == <<payload>> \o queue

\* _requeue_expired: the pipeline for one token.  In the branch for a missing payload
\* HDEL <queue>:processing:token is given the token as field; a token (32 hex digits)
\* is never a job id, so that HDEL removes nothing.
RedisScanPipe(w) ==
    /\ impl = "redis"
    /\ pc[w] = "scan_pipe"
    /\ LET token == Head(loc[w].expired)[1]
           payload == loc[w].payload
           rest == Tail(loc[w].expired)
       IN  /\ zset' = IF kind = "diff" THEN zset ELSE Without(zset, token)
           /\ hpayload' = Without(hpayload, token)
           /\ IF payload # NoPayload
              THEN /\ htoken' = Without(htoken, JobIdOf(payload))
                   /\ plist' = Lrem(plist, payload)
                   /\ queue' = RedisRequeued(payload)
                   /\ reclaims' = [reclaims EXCEPT ![token] = @ + 1]
              ELSE /\ UNCHANGED <<htoken, plist, queue, reclaims>>
           /\ loc' = [loc EXCEPT ![w] = [expired |-> rest, payload |-> NoPayload]]
           /\ pc' = [pc EXCEPT ![w] = IF rest = <<>> THEN "brpop" ELSE "scan_hget"]
    /\ UNCHANGED <<impl, kind, dedupe, processing, processing_tokens, now, nextToken,
                   held>>
    /\ QueueFrame

\* Redis*Queue.pop: BRPOPLPUSH <queue_name> <queue>:processing returns a payload
RedisBrpoplpush(w) ==
    /\ impl = "redis"
    /\ pc[w] = "brpop"
    /\ queue # <<>>
    /\ LET payload == queue[Len(queue)] IN
       /\ queue' = SubSeq(queue, 1, Len(queue) - 1)
       /\ plist' = <<payload>> \o plist
       /\ loc' = [loc EXCEPT ![w] = [expired |-> <<>>, payload |-> payload]]
    /\ pc' = [pc EXCEPT ![w] = "register"]
    /\ UNCHANGED <<impl, kind, dedupe, processing, processing_tokens, zset, hpayload,
                   htoken, now, nextToken, held, reclaims>>
    /\ QueueFrame

\* Redis*Queue.pop: BRPOPLPUSH times out, pop returns None
RedisPopTimeout(w) ==
    /\ impl = "redis"
    /\ pc[w] = "brpop"
    /\ queue = <<>>
    /\ pc' = [pc EXCEPT ![w] = "idle"]
    /\ loc' = [loc EXCEPT ![w] = NoLoc]
    /\ UNCHANGED <<impl, kind, queue, dedupe, processing, processing_tokens, plist, zset,
                   hpayload, htoken, now, nextToken, held, reclaims>>
    /\ QueueFrame

\* Redis*Queue.pop: the pipeline ZADD zset, HSET payload, HSET token; then return
RedisRegister(w) ==
    /\ impl = "redis"
    /\ pc[w] = "register"
    /\ LET payload == loc[w].payload
           job == JobIdOf(payload)
           token == FreshToken
           expiry == now + VisibilityTimeout
       IN  /\ zset' = With(zset, token, expiry)
           /\ hpayload' = With(hpayload, token, payload)
           /\ htoken' = With(htoken, job, token)
           /\ held' = [held EXCEPT ![w] = [job |-> job, payload |-> payload, token |-> token]]
    /\ nextToken' = nextToken + 1
    /\ pc' = [pc EXCEPT ![w] = "idle"]
    /\ loc' = [loc EXCEPT ![w] = NoLoc]
    /\ UNCHANGED <<impl, kind, queue, dedupe, processing, processing_tokens, plist, now,
                   reclaims>>
    /\ QueueFrame

\* Redis*Queue.ack: HGET <queue>:processing:token job_id and the token comparison
RedisAckToken(w) ==
    /\ impl = "redis"
    /\ pc[w] = "idle"
    /\ held[w] # NoMsg
    /\ LET m == held[w] IN
       IF m.job \in DOMAIN htoken /\ htoken[m.job] = m.token
       THEN /\ pc' = [pc EXCEPT ![w] = "ack_payload"]
            /\ UNCHANGED held
       ELSE /\ held' = [held EXCEPT ![w] = NoMsg]
            /\ UNCHANGED pc
    /\ UNCHANGED <<impl, kind, queue, dedupe, processing, processing_tokens, plist, zset,
                   hpayload, htoken, now, nextToken, loc, reclaims>>
    /\ QueueFrame

\* Redis*Queue.ack: HGET <queue>:processing:payload stored_token and the comparison
RedisAckPayload(w) ==
    /\ impl = "redis"
    /\ pc[w] = "ack_payload"
    /\ LET m == held[w] IN
       IF m.token \in DOMAIN hpayload /\ hpayload[m.token] = m.payload
       THEN /\ pc' = [pc EXCEPT ![w] = "ack_pipe"]
            /\ UNCHANGED held
       ELSE /\ held' = [held EXCEPT ![w] = NoMsg]
            /\ pc' = [pc EXCEPT ![w] = "idle"]
    /\ UNCHANGED <<impl, kind, queue, dedupe, processing, processing_tokens, plist, zset,
                   hpayload, htoken, now, nextToken, loc, reclaims>>
    /\ QueueFrame

\* Redis*Queue.ack: the cleanup pipeline
RedisAckPipe(w) ==
    /\ impl = "redis"
    /\ pc[w] = "ack_pipe"
    /\ LET m == held[w] IN
       /\ hpayload' = Without(hpayload, m.token)
       /\ zset' = Without(zset, m.token)
       /\ htoken' = Without(htoken, m.job)
       /\ dedupe' = dedupe \ {m.job}
       /\ plist' = Lrem(plist, m.payload)
    /\ held' = [held EXCEPT ![w] = NoMsg]
    /\ pc' = [pc EXCEPT ![w] = "idle"]
    /\ UNCHANGED <<impl, kind, queue, processing, processing_tokens, now, nextToken, loc,
                   reclaims>>
    /\ QueueFrame

----------------------------------------------------------------------------
(* Consumers and the clock.                                                 *)

\* a handler that returns False (no ack), e.g. on budget denial or a retryable error
Drop(w) ==
    /\ pc[w] = "idle"
    /\ held[w] # NoMsg
    /\ held' = [held EXCEPT ![w] = NoMsg]
    /\ UNCHANGED <<impl, kind, queue, dedupe, processing, processing_tokens, plist, zset,
                   hpayload, htoken, now, nextToken, pc, loc, reclaims>>
    /\ QueueFrame

\* Service.stop() cancels the worker task (or the process dies) while the worker is
\* suspended inside pop or ack
Cancel(w) ==
    /\ pc[w] # "idle"
    /\ pc' = [pc EXCEPT ![w] = "idle"]
    /\ loc' = [loc EXCEPT ![w] = NoLoc]
    /\ held' = [held EXCEPT ![w] = NoMsg]
    /\ UNCHANGED <<impl, kind, queue, dedupe, processing, processing_tokens, plist, zset,
                   hpayload, htoken, now, nextToken, reclaims>>
    /\ QueueFrame

Tick ==
    /\ now < MaxTime
    /\ now' = now + 1
    /\ UNCHANGED <<impl, kind, queue, dedupe, processing, processing_tokens, plist, zset,
                   hpayload, htoken, nextToken, pc, held, loc, reclaims>>
    /\ QueueFrame

QueueInit ==
    /\ impl \in Impls
    /\ kind \in Kinds
    /\ queue = <<>>
    /\ dedupe = {}
    /\ processing = <<>>
    /\ processing_tokens = <<>>
    /\ plist = <<>>
    /\ zset = <<>>
    /\ hpayload = <<>>
    /\ htoken = <<>>
    /\ now = 0
    /\ nextToken = 1
    /\ pc = [w \in Workers |-> "idle"]
    /\ held = [w \in Workers |-> NoMsg]
    /\ loc = [w \in Workers |-> NoLoc]
    /\ reclaims = [t \in 1..MaxTokens |-> 0]

\* the parse queue and the budget, not in use
ParseIdle ==
    /\ parseq = <<>>
    /\ ppc = [w \in Workers |-> "idle"]
    /\ ptask = [w \in Workers |-> "-"]
    /\ pdone = {}
    /\ plost = {}
    /\ ppushes = 0

BudgetIdle ==
    /\ counter = 0
    /\ hasTtl = FALSE
    /\ exhaustions = 0
    /\ bpc = [w \in Workers |-> "idle"]
    /\ bres = [w \in Workers |-> [amount |-> 0, total |-> 0, used |-> 0]]
    /\ committed = 0
    /\ gauge = 0

\* section ordinals of the model's filings
MaxSections == 2
Ordinals == 1..MaxSections

NoTask == [o |-> 0, at |-> "-"]

\* no FilingDiff row, empty diff queue
DiffIdle ==
    /\ dexists = FALSE
    /\ dstatus = "-"
    /\ dexpected = 0
    /\ dprocessed = 0
    /\ drows = {}
    /\ dtopush = {}
    /\ dq = {}
    /\ dproc = <<>>
    /\ dheld = [w \in Workers |-> NoTask]
    /\ dout = [o \in Ordinals |-> "-"]
    /\ dscheds = 0
    /\ dredel = 0

\* parts 4 and later, not in use
NoTxn == [del |-> {}, n |-> 0]
NoArt == [n |-> 0, done |-> 0]
NoRun == [failed |-> FALSE, pushed |-> FALSE]

\* the accession is not in the datastore, no task for it exists yet
FilingIdle ==
    /\ fstatus = "none"
    /\ fsections = {}
    /\ fcommit = 0
    /\ fparseq = 0
    /\ fpc = [w \in Workers |-> "idle"]
    /\ ftxn = [w \in Workers |-> NoTxn]
    /\ dlpc = [w \in Workers |-> "idle"]
    /\ dlart = [w \in Workers |-> NoArt]
    /\ dlres = [w \in Workers |-> NoRun]
    /\ dldeliv = 0
    /\ dlacked = FALSE
    /\ fjobs = [chunk |-> 0, diff |-> 0]

NoRead == [job |-> "-", found |-> 0]

\* no FilingAnalysis row
AnalysisIdle ==
    /\ arows = <<>>
    /\ apc = [w \in Workers |-> "idle"]
    /\ aread = [w \in Workers |-> NoRead]
    /\ aruns = 0
    /\ arejected = 0

\* nothing planned, empty summary queue
PlanIdle ==
    /\ kclock = 0
    /\ ktasks = <<>>
    /\ kidx = 0
    /\ kaccepted = 0
    /\ kq = <<>>
    /\ kdedupe = {}
    /\ kplans = 0

Pollers == {"global", "company"}

\* accession numbers a feed entry can carry; "" is an entry without one
FeedAccessions == {"", "a1", "a2"}

PollIdle ==
    /\ seen = {}
    /\ published = [a \in FeedAccessions |-> 0]
    /\ pollq = [p \in Pollers |-> <<>>]
    /\ pollpc = [p \in Pollers |-> "idle"]
    /\ pollcycles = 0
    /\ polldups = {}

Ciks == {"c1", "c2"}

KnownCiks == {"c2"}

NoDownload == [accession_number |-> "none", cik |-> "none"]

CompanyIdle ==
    /\ crows = [c \in Ciks |-> IF c \in KnownCiks THEN 1 ELSE 0]
    /\ cpc = [w \in Workers |-> "idle"]
    /\ ctask = [w \in Workers |-> NoDownload]
    /\ cnew = [w \in Workers |-> FALSE]
    /\ cres = [w \in Workers |-> "none"]
    /\ cruns = 0


ServiceIdle ==
    /\ stop_event = FALSE
    /\ svjob = [j \in Jobs |-> "none"]
    /\ svpc = [w \in Workers |-> "pop"]
    /\ svheld = [w \in Workers |-> "none"]
    /\ svcancelled = [w \in Workers |-> FALSE]
    /\ svhandled = {}


NoGate == [pause |-> -1, resume |-> -1]

NoCall ==
    [first |-> -1, unpaused |-> FALSE, last |-> -1, pauses |-> 0, resumes |-> 0,
     slept |-> FALSE, alone |-> FALSE, how |-> "none"]

GateIdle ==
    /\ gconf = NoGate
    /\ gpaused = FALSE
    /\ gpc = [w \in Workers |-> "out"]
    /\ gcall = [w \in Workers |-> NoCall]
    /\ glast = "none"
    /\ gsamples = 0


NoResult == [kind |-> "none", status |-> 0]

NoCompletion == [json |-> FALSE, top |-> "none", entities |-> "absent"]

NoHandling ==
    [calls |-> 0, attempt |-> 0, last |-> NoResult, budget |-> "-",
     raw |-> NoCompletion, wrote |-> FALSE, outcome |-> "-"]

LlmIdle ==
    /\ ljob = "none"
    /\ lq = "none"
    /\ lpc = [w \in Workers |-> "idle"]
    /\ lrun = [w \in Workers |-> NoHandling]
    /\ lanalysis = 0
    /\ lentities = 0
    /\ lparseerrors = 0
    /\ ldeliv = 0

NoSection == [present |-> FALSE, lines |-> <<>>]

\* last_error = None
NoError == [set |-> FALSE, length |-> 0, of |-> 0]

NoDiffRun ==
    [calls |-> 0, attempt |-> 0, last |-> NoResult, snippet |-> <<>>, outcome |-> "-"]

\* no DiffTask, no FilingDiff row
HandlerIdle ==
    /\ htask = [current |-> NoSection, previous |-> NoSection]
    /\ hq = "none"
    /\ hpc = [w \in Workers |-> "idle"]
    /\ hrun = [w \in Workers |-> NoDiffRun]
    /\ hstatus = "-"
    /\ hprocessed = 0
    /\ hrows = <<>>
    /\ hanalysis = FALSE
    /\ hdeliv = 0
    /\ herror = NoError

\* no FilingDiff row for the current filing
NoDiffRecord == [exists |-> FALSE, status |-> "-", expected |-> 0, processed |-> 0]

\* both filings without sections, nothing scheduled
ScheduleIdle ==
    /\ ssections = [current |-> {}, previous |-> {}]
    /\ srecord = NoDiffRecord
    /\ stasks = <<>>
    /\ spc = "idle"

NoUpsert == [pc |-> "idle", kind |-> "-", value |-> 0, found |-> 0]

\* no FilingBlob row, no download worker inside _persist_metadata
BlobIdle ==
    /\ blobs = {}
    /\ upsert = [w \in Workers |-> NoUpsert]
    /\ upserts = 0

NoChunking == [done |-> FALSE, chunks |-> <<>>]

\* no section given to the planner
ChunkingIdle ==
    /\ chsection = <<>>
    /\ chresult = NoChunking

RestIdle == DiffIdle /\ FilingIdle /\ AnalysisIdle /\ PlanIdle /\ PollIdle /\ CompanyIdle /\ ServiceIdle /\ GateIdle /\ LlmIdle /\ HandlerIdle /\ ScheduleIdle /\ BlobIdle /\ ChunkingIdle

Init == QueueInit /\ ParseIdle /\ BudgetIdle /\ RestIdle

Next ==
    \/ \E j \in Jobs : MemPush(j)
    \/ \E w \in Workers : MemPopBegin(w)
    \/ \E w \in Workers : MemPopGet(w)
    \/ \E w \in Workers : MemPopTimeout(w)
    \/ \E w \in Workers : MemAck(w)
    \/ \E j \in Jobs : RedisPush(j)
    \/ \E w \in Workers : RedisScan(w)
    \/ \E w \in Workers : RedisScanHget(w)
    \/ \E w \in Workers : RedisScanPipe(w)
    \/ \E w \in Workers : RedisBrpoplpush(w)
    \/ \E w \in Workers : RedisPopTimeout(w)
    \/ \E w \in Workers : RedisRegister(w)
    \/ \E w \in Workers : RedisAckToken(w)
    \/ \E w \in Workers : RedisAckPayload(w)
    \/ \E w \in Workers : RedisAckPipe(w)
    \/ \E w \in Workers : Drop(w)
    \/ \E w \in Workers : Cancel(w)
    \/ Tick

Spec == Init /\ [][Next]_vars

\* one step of consumer w's loop (pop, handle, ack or give up), not cancelled
WorkerStep(w) ==
    \/ MemPopBegin(w) \/ MemPopGet(w) \/ MemPopTimeout(w) \/ MemAck(w)
    \/ RedisScan(w) \/ RedisScanHget(w) \/ RedisScanPipe(w)
    \/ RedisBrpoplpush(w) \/ RedisPopTimeout(w) \/ RedisRegister(w)
    \/ RedisAckToken(w) \/ RedisAckPayload(w) \/ RedisAckPipe(w)
    \/ Drop(w)

\* the fair specification follows the deliveries of one job
LiveJobs == {"j1"}

LiveNext ==
    \/ \E j \in LiveJobs : MemPush(j)
    \/ \E j \in LiveJobs : RedisPush(j)
    \/ \E w \in Workers : WorkerStep(w)
    \/ Tick

\* the consumers keep running their loop (while not stop_event.is_set(): pop ...):
\* a consumer that can take a step eventually takes one
LiveSpec == Init /\ [][LiveNext]_vars /\ \A w \in Workers : WF_vars(WorkerStep(w))

(***************************************************************************)
(* Properties of the reliable queues.                                      *)
(***************************************************************************)

\* the token under which `job` is currently in flight according to the processing index
HasCurrent(job) ==
    IF impl = "memory" THEN job \in DOMAIN processing ELSE job \in DOMAIN htoken

CurrentToken(job) ==
    IF impl = "memory" THEN processing[job].token ELSE htoken[job]

\* the step is consumer w returning from ack (or giving its message up)
Releases(w) == held[w] # NoMsg /\ held'[w] = NoMsg

\* the step is consumer w completing a successful ack of job
AckSucceeds(w, job) ==
    /\ Releases(w)
    /\ held[w].job = job
    /\ IF impl = "memory" THEN pc[w] = "idle" /\ MemAckAccepts(held[w])
       ELSE pc[w] = "ack_pipe"

\* the step is an accepted push of job
PushAccepted(job) == job \notin dedupe /\ job \in dedupe'

\* the item a push of job appends to the queue
QueueItem(job) == IF impl = "memory" THEN job ELSE Serialize(job)

\* the step is expiry recovery run by consumer w
RecoveryStep(w) ==
    \/ impl = "memory" /\ pc[w] = "idle" /\ pc'[w] = "get"
    \/ impl = "redis" /\ pc[w] = "idle" /\ pc'[w] \in {"scan_hget", "brpop"}
    \/ impl = "redis" /\ pc[w] = "scan_pipe" /\ pc'[w] \in {"scan_hget", "brpop"}

\* C1: push appends the task exactly when it adds the job id to the dedupe set (a
\* refused push changes nothing), and a job id leaves the dedupe set only by a
\* successful ack of that job.
C1_DedupeUntilAck ==
    [][\A j \in Jobs :
          /\ PushAccepted(j) => queue' = Append(queue, QueueItem(j))
          /\ (j \in dedupe /\ j \notin dedupe') => \E w \in Workers : AckSucceeds(w, j)
      ]_vars

\* C2: a message that is held un-acked and is delivered again after its visibility
\* timeout is delivered with the same payload and a different token; expiry recovery
\* puts every entry whose timeout has passed back on the queue, and while consumers
\* keep popping, an abandoned delivery whose timeout has passed is eventually
\* delivered again under a later token (or the model's tokens run out).
C2_SecondDelivery ==
    \A w1, w2 \in Workers :
        (w1 # w2 /\ held[w1] # NoMsg /\ held[w2] # NoMsg /\ held[w1].job = held[w2].job)
            => /\ held[w1].token # held[w2].token
               /\ held[w1].payload = held[w2].payload

C2_RecoveryRequeues ==
    \A w \in Workers :
        /\ (impl = "memory" /\ pc[w] = "idle" /\ pc'[w] = "get") =>
               \A j \in DOMAIN processing :
                   processing[j].expires < now =>
                       /\ j \notin DOMAIN processing'
                       /\ \E i \in DOMAIN queue' : Serialize(queue'[i]) = processing[j].payload
        /\ (impl = "redis" /\ pc[w] = "idle" /\ pc'[w] \in {"scan_hget", "brpop"}) =>
               \A t \in DOMAIN zset :
                   zset[t] < now => \E i \in DOMAIN loc'[w].expired : loc'[w].expired[i][1] = t
        /\ (impl = "redis" /\ pc[w] = "scan_pipe" /\ pc'[w] \in {"scan_hget", "brpop"}
                /\ loc[w].payload # NoPayload) =>
               /\ Head(queue') = loc[w].payload
               /\ Head(loc[w].expired)[1] \notin DOMAIN zset'

\* delivery t of job j is in the processing index, its timeout has passed, and no
\* consumer holds it any more (so it will not be acked)
C2_Abandoned(j, t) ==
    /\ \A w \in Workers : held[w].token # t
    /\ IF impl = "memory"
       THEN /\ j \in DOMAIN processing
            /\ processing[j].token = t
            /\ MemIsExpired(processing[j])
       ELSE /\ t \in DOMAIN zset
            /\ zset[t] <= now
            /\ t \in DOMAIN hpayload
            /\ JobIdOf(hpayload[t]) = j

\* a later pop has returned job j with the same payload under a later token
C2_Redelivered(j, t) ==
    \E w \in Workers :
        /\ held[w].job = j
        /\ held[w].token > t
        /\ held[w].payload = Serialize(j)

C2_EventuallyRedelivered ==
    \A j \in LiveJobs, t \in 1..MaxTokens :
        C2_Abandoned(j, t) ~> (C2_Redelivered(j, t) \/ nextToken > MaxTokens)

C2_RedeliveryAfterTimeout ==
    /\ []C2_SecondDelivery
    /\ [][C2_RecoveryRequeues]_vars
    /\ C2_EventuallyRedelivered

\* a consumer still holds the first delivery while another holds the second one
C2_Witness ==
    \E w1, w2 \in Workers :
        /\ held[w1] # NoMsg /\ held[w2] # NoMsg
        /\ held[w1].job = held[w2].job
        /\ held[w1].token < held[w2].token
        /\ reclaims[held[w1].token] = 1

\* C3: once a message has been delivered a second time, an ack with the first
\* delivery's token changes neither the dedupe set nor the processing entries.
C3_StaleAckNoop ==
    [][\A w \in Workers :
          (/\ Releases(w)
           /\ pc[w] = "idle"
           /\ HasCurrent(held[w].job)
           /\ CurrentToken(held[w].job) # held[w].token)
              => UNCHANGED <<dedupe, processing, plist, zset, hpayload, htoken>>
      ]_vars

\* C4: in the Redis queues the cleanup pipeline of an ack never removes the dedupe
\* entry, the job_id -> token mapping or the processing-list payload of a newer
\* delivery of the same job.
C4_AckSparesNewerDelivery ==
    [][\A w \in Workers :
          (/\ impl = "redis"
           /\ pc[w] = "ack_pipe"
           /\ Releases(w)
           /\ held[w].job \in DOMAIN htoken
           /\ htoken[held[w].job] # held[w].token)
              => /\ held[w].job \in dedupe'
                 /\ held[w].job \in DOMAIN htoken'
                 /\ htoken'[held[w].job] = htoken[held[w].job]
                 /\ plist' = plist
      ]_vars

\* C5: the payload of one delivery is put back on the queue by expiry recovery at
\* most once.
C5_AtMostOneReclaim == \A t \in DOMAIN reclaims : reclaims[t] <= 1

\* C6: expiry recovery puts back only entries whose expiry is <= now.
C6_OnlyExpiredReclaimed ==
    [][\A w \in Workers :
          /\ (impl = "memory" /\ pc[w] = "idle" /\ pc'[w] = "get") =>
                 \A j \in DOMAIN processing \ DOMAIN processing' :
                     processing[j].expires <= now
          /\ (impl = "redis" /\ pc[w] = "scan_pipe" /\ loc'[w] # loc[w]
                  /\ queue' = RedisRequeued(loc[w].payload)) =>
                 Head(loc[w].expired)[2] <= now
      ]_vars

\* C7: expiry recovery leaves the dedupe set unchanged.
C7_RecoveryKeepsDedupe ==
    [][(\E w \in Workers : RecoveryStep(w)) => dedupe' = dedupe]_vars

\* C8: a payload that pop has moved to the processing list always has an entry
\* (token, expiry) in the processing index.
C8_PoppedIsIndexed ==
    \A i \in DOMAIN plist :
        \E t \in DOMAIN zset : t \in DOMAIN hpayload /\ hpayload[t] = plist[i]

(***************************************************************************)
(* Part 2. The parse queue and the parser worker loop.                     *)
(***************************************************************************)

\* pushes of parse tasks one behaviour may make
MaxParsePushes == 3

Accessions == {"a1", "a2"}

\* the queue variables, not in use
QueueIdle == QueueInit /\ impl = "memory" /\ kind = "download"

ParseFrame == UNCHANGED <<qvars, bvars, xvars>>

\* the list after RedisParseQueue.push / InMemoryParseQueue.push: RPUSH / Queue.put
ParsePushed(a) == Append(parseq, a)

\* DownloadWorker._handle_task (after a successful download) and
\* ParserService.enqueue push a ParseTask for the accession
ParsePush(a) ==
    /\ ppushes < MaxParsePushes
    /\ parseq' = ParsePushed(a)
    /\ ppushes' = ppushes + 1
    /\ UNCHANGED <<ppc, ptask, pdone, plost>>
    /\ ParseFrame

\* ParserWorker.run: pop returns a task (BLPOP / Queue.get take the head); the task
\* is in no list from here on
ParsePop(w) ==
    /\ ppc[w] = "idle"
    /\ parseq # <<>>
    /\ ptask' = [ptask EXCEPT ![w] = Head(parseq)]
    /\ parseq' = Tail(parseq)
    /\ ppc' = [ppc EXCEPT ![w] = "handling"]
    /\ UNCHANGED <<pdone, plost, ppushes>>
    /\ ParseFrame

\* ParserWorker.run: _handle_task returns, or raises and the filing is marked FAILED;
\* the loop goes back to pop
ParseHandled(w) ==
    /\ ppc[w] = "handling"
    /\ pdone' = pdone \cup {ptask[w]}
    /\ ppc' = [ppc EXCEPT ![w] = "idle"]
    /\ ptask' = [ptask EXCEPT ![w] = "-"]
    /\ UNCHANGED <<parseq, plost, ppushes>>
    /\ ParseFrame

\* ParserService.stop cancels the worker task (or the process dies) inside
\* _handle_task: CancelledError is re-raised, the task is dropped
ParseCancel(w) ==
    /\ ppc[w] = "handling"
    /\ plost' = plost \cup {ptask[w]}
    /\ ppc' = [ppc EXCEPT ![w] = "idle"]
    /\ ptask' = [ptask EXCEPT ![w] = "-"]
    /\ UNCHANGED <<parseq, pdone, ppushes>>
    /\ ParseFrame

ParseInit == QueueIdle /\ ParseIdle /\ BudgetIdle /\ RestIdle

ParseNext ==
    \/ \E a \in Accessions : ParsePush(a)
    \/ \E w \in Workers : ParsePop(w)
    \/ \E w \in Workers : ParseHandled(w)
    \/ \E w \in Workers : ParseCancel(w)

ParseSpec == ParseInit /\ [][ParseNext]_vars

\* parse tasks for accession a that are queued
ParseQueued(a) == Cardinality({i \in DOMAIN parseq : parseq[i] = a})

\* C9: the parse queue keeps at most one pending task per accession, and a task that
\* a parser worker popped and abandoned stays available for a later pop until it has
\* been handled.
C9_ParseQueueReliable ==
    /\ \A a \in Accessions : ParseQueued(a) <= 1
    /\ \A a \in plost \ pdone :
           ParseQueued(a) > 0 \/ \E w \in Workers : ptask[w] = a

(***************************************************************************)
(* Part 3. The daily token budget (TokenBudgetManager).                    *)
(***************************************************************************)

\* daily_limit of the scope
DailyLimit == 4
\* reserve(estimate) is called with estimate in 0..MaxEstimate
MaxEstimate == 3
\* commit(used) is called with used in -1..MaxUsed
MaxUsed == 4
\* the exhaustion counter is followed up to this value
MaxExhaustions == 2

Clients == Workers

NoRes == [amount |-> 0, total |-> 0, used |-> 0]

BudgetFrame == UNCHANGED <<qvars, pvars, xvars>>

\* GroqBudgetLimiter.reserve: amount = max(estimate, 1)
ReserveAmount(estimate) == IF estimate >= 1 THEN estimate ELSE 1

\* a limiter that grants every reservation
NeverExceeds(total) == FALSE

\* TokenBudgetManager._reserve: the test that denies the reservation
Exceeds(total) == total > DailyLimit

\* _reserve: the pipeline INCRBY key amount; TTL key.  When the key has an expiry and
\* the total is within the limit the call sets the gauges to the total and returns the
\* reservation without a further Redis command.
BudgetReserveIncr(c, estimate) ==
    /\ bpc[c] = "idle"
    /\ exhaustions < MaxExhaustions
    /\ LET amount == ReserveAmount(estimate)
           total == counter + amount
       IN  /\ counter' = total
           /\ bres' = [bres EXCEPT ![c] = [amount |-> amount, total |-> total, used |-> 0]]
           /\ bpc' = [bpc EXCEPT ![c] =
                         IF ~hasTtl THEN "r_expire"
                         ELSE IF Exceeds(total) THEN "r_deny" ELSE "held"]
           /\ gauge' = IF hasTtl /\ ~Exceeds(total) THEN total ELSE gauge
    /\ UNCHANGED <<hasTtl, exhaustions, committed>>
    /\ BudgetFrame

\* _reserve: EXPIREAT key next-midnight, when TTL returned -1 or -2; a call that is
\* granted then sets the gauges to the total its INCRBY returned
BudgetReserveExpire(c) ==
    /\ bpc[c] = "r_expire"
    /\ hasTtl' = TRUE
    /\ bpc' = [bpc EXCEPT ![c] = IF Exceeds(bres[c].total) THEN "r_deny" ELSE "held"]
    /\ gauge' = IF Exceeds(bres[c].total) THEN gauge ELSE bres[c].total
    /\ UNCHANGED <<counter, exhaustions, bres, committed>>
    /\ BudgetFrame

\* _reserve: total > limit: DECRBY key amount, count the exhaustion, raise
BudgetReserveDeny(c) ==
    /\ bpc[c] = "r_deny"
    /\ counter' = counter - bres[c].amount
    /\ exhaustions' = exhaustions + 1
    /\ bpc' = [bpc EXCEPT ![c] = "idle"]
    /\ bres' = [bres EXCEPT ![c] = NoRes]
    /\ UNCHANGED <<hasTtl, committed, gauge>>
    /\ BudgetFrame

\* _finalize: used = max(used, 0)
ClampUsed(used) == IF used >= 0 THEN used ELSE 0

\* TokenReservation.commit(used) / release() -> _finalize: GET and the gauges
\* (delta = 0), DECRBY (delta < 0) or INCRBY (delta > 0) and the exhaustion count
BudgetFinalize(c, used) ==
    /\ bpc[c] = "held"
    /\ LET u == ClampUsed(used)
           delta == u - bres[c].amount
           newTotal == counter + delta
       IN  /\ counter' = newTotal
           /\ exhaustions' = IF delta > 0 /\ newTotal > DailyLimit
                             THEN exhaustions + 1 ELSE exhaustions
           /\ committed' = committed + u
           /\ bpc' = [bpc EXCEPT ![c] = IF delta = 0 THEN "idle" ELSE "f_expire"]
           /\ bres' = [bres EXCEPT ![c] = IF delta = 0 THEN NoRes
                                          ELSE [bres[c] EXCEPT !.used = u,
                                                               !.total = newTotal]]
           /\ gauge' = IF delta = 0 THEN counter ELSE gauge
    /\ UNCHANGED hasTtl
    /\ BudgetFrame

\* _finalize: EXPIREAT key next-midnight, then the gauges are set to the total the
\* DECRBY or INCRBY returned
BudgetFinalizeExpire(c) ==
    /\ bpc[c] = "f_expire"
    /\ hasTtl' = TRUE
    /\ bpc' = [bpc EXCEPT ![c] = "idle"]
    /\ bres' = [bres EXCEPT ![c] = NoRes]
    /\ gauge' = bres[c].total
    /\ UNCHANGED <<counter, exhaustions, committed>>
    /\ BudgetFrame

BudgetInit == QueueIdle /\ ParseIdle /\ BudgetIdle /\ RestIdle

BudgetNext ==
    \/ \E c \in Clients, e \in 0..MaxEstimate : BudgetReserveIncr(c, e)
    \/ \E c \in Clients : BudgetReserveExpire(c)
    \/ \E c \in Clients : BudgetReserveDeny(c)
    \/ \E c \in Clients, u \in (-1)..MaxUsed : BudgetFinalize(c, u)
    \/ \E c \in Clients : BudgetFinalizeExpire(c)

BudgetSpec == BudgetInit /\ [][BudgetNext]_vars

\* C10: the day counter never exceeds the daily limit.
C10_CounterWithinLimit == counter <= DailyLimit

\* the step is the end of a reserve call of client c that raises BudgetExceeded
ReserveDenied(c) == bpc[c] = "r_deny" /\ bpc'[c] = "idle"

\* the step grants client c its reservation
ReserveGranted(c) == bpc[c] \in {"idle", "r_expire"} /\ bpc'[c] = "held"

\* C23: a reserve whose total, counter + amount, is above the daily limit is never
\* granted; it ends with no reservation, takes its own amount off the counter again
\* (so the counter is back at the value before the call unless another client moved
\* it meanwhile) and adds exactly one to the exhaustion counter.
C23_DeniedReserve ==
    /\ [](\A c \in Clients : bpc[c] = "r_deny" => bres[c].total > DailyLimit)
    /\ [][\A c \in Clients :
            /\ ReserveGranted(c) => bres'[c].total <= DailyLimit
            /\ (bpc[c] \in {"idle", "r_expire"} /\ bres'[c].total > DailyLimit)
                    => bpc'[c] \in {"r_expire", "r_deny"}
            /\ ReserveDenied(c) =>
                    /\ counter' = counter - bres[c].amount
                    /\ (counter = bres[c].total => counter' = bres[c].total - bres[c].amount)
                    /\ exhaustions' = exhaustions + 1
                    /\ bres'[c] = NoRes]_vars

\* no reserve, commit or release call is in progress
BudgetQuiescent == \A c \in Clients : bpc[c] \in {"idle", "held"}

\* the reserved amount of client c's reservation, 0 when it holds none
HeldAmount(c) == IF bpc[c] = "held" THEN bres[c].amount ELSE 0

\* the day counter is the sum of max(used, 0) over the finalised reservations plus the
\* amounts of the reservations still held
CounterAccounted == counter = committed + HeldAmount("w1") + HeldAmount("w2")

\* C24: whenever the reserve, commit and release calls made so far have returned, the
\* day counter equals the sum of max(used, 0) over the finalised reservations plus the
\* reserved amounts of those not yet finalised, and the usage gauge equals the counter.
C24_BudgetAccounting == BudgetQuiescent => CounterAccounted /\ gauge = counter

\* a reserve has been denied while the other client holds a reservation that fills the
\* limit: the counter is back at that reservation's amount
C23_Witness ==
    /\ exhaustions = 1
    /\ committed = 0
    /\ counter = DailyLimit - 1
    /\ \E c, d \in Clients :
            /\ bpc[c] = "held" /\ bres[c].amount = counter
            /\ bpc[d] = "idle"

\* C39: the INCRBY of a reserve returns a total above the limit, so that the reserve
\* will be denied, only when the tokens committed so far, plus the amounts of the other
\* clients' reservations that are granted (or are being granted) and not yet
\* finalised, plus its own amount are above the daily limit.
C39_DeniedOnlyWhenOverLimit ==
    [][\A c \in Clients :
        (bpc[c] = "idle" /\ bpc'[c] # "idle" /\ bres'[c].total > DailyLimit) =>
            LET granted(d) == \/ bpc[d] = "held"
                              \/ bpc[d] = "r_expire" /\ bres[d].total <= DailyLimit
                others == { d \in Clients \ {c} : granted(d) }
                reserved == IF others = {} THEN 0
                            ELSE bres[CHOOSE d \in others : TRUE].amount
            IN  committed + reserved + bres'[c].amount > DailyLimit]_vars

(***************************************************************************)
(* Part 4. Diff runs: the parser schedules a FilingDiff row and its        *)
(* DiffTasks, diff workers handle the tasks.  Every transaction runs under *)
(* SELECT ... FOR UPDATE on the row and is one step.                       *)
(***************************************************************************)

\* scheduling runs (parses of the current filing) one behaviour may make
MaxSchedules == 2
\* visibility-timeout redeliveries one behaviour may make
MaxRedeliveries == 2

AllIdle == QueueIdle /\ ParseIdle /\ BudgetIdle /\ RestIdle

DiffFrame == UNCHANGED <<qvars, pvars, bvars, fvars, avars, kvars, ivars, cvars, svvars, gvars, lvars, hvars, schvars, blvars, chvars>>

\* job ids in the diff queue's dedupe set: pushed and not acked
DiffDedupe == dq \cup DOMAIN dproc

\* ParserWorker._schedule_diff_jobs, the transaction: create or reset the row, build
\* one DiffTask per ordinal of the union of the two filings' sections (n of them)
DiffSchedule(n) ==
    /\ dscheds < MaxSchedules
    /\ dtopush = {}
    /\ dscheds' = dscheds + 1
    /\ dexists' = TRUE
    /\ dexpected' = n
    /\ dprocessed' = 0
    /\ dstatus' = IF n = 0 THEN "skipped" ELSE "pending"
    /\ drows' = {}
    /\ dtopush' = 1..n
    /\ dout' = [o \in Ordinals |-> "-"]
    /\ UNCHANGED <<dq, dproc, dheld, dredel>>
    /\ DiffFrame

\* _schedule_diff_jobs, after the commit: for task in tasks: diff_queue.push(task)
DiffPush ==
    /\ dtopush # {}
    /\ LET o == CHOOSE x \in dtopush : \A y \in dtopush : x <= y
       IN  /\ dtopush' = dtopush \ {o}
           /\ dq' = IF o \in DiffDedupe THEN dq ELSE dq \cup {o}
    /\ UNCHANGED <<dexists, dstatus, dexpected, dprocessed, drows, dproc, dheld, dout,
                   dscheds, dredel>>
    /\ DiffFrame

\* DiffWorker.run: pop returns a message
DiffPop(w, o) ==
    /\ dheld[w] = NoTask
    /\ o \in dq
    /\ dq' = dq \ {o}
    /\ dproc' = With(dproc, o, w)
    /\ dheld' = [dheld EXCEPT ![w] = [o |-> o, at |-> "popped"]]
    /\ UNCHANGED <<dexists, dstatus, dexpected, dprocessed, drows, dtopush, dout,
                   dscheds, dredel>>
    /\ DiffFrame

\* the diff queue's expiry recovery: the visibility timeout of a delivery has passed,
\* the task goes back on the queue (its dedupe entry stays)
DiffRedeliver(o) ==
    /\ dredel < MaxRedeliveries
    /\ o \in DOMAIN dproc
    /\ dproc' = Without(dproc, o)
    /\ dq' = dq \cup {o}
    /\ dredel' = dredel + 1
    /\ UNCHANGED <<dexists, dstatus, dexpected, dprocessed, drows, dtopush, dheld, dout,
                   dscheds>>
    /\ DiffFrame

\* _persist_results / _finalize_noop: PENDING or SKIPPED becomes PROCESSING
Started(status) == IF status \in {"pending", "skipped"} THEN "processing" ELSE status

\* _persist_results / _finalize_noop: the status after processed_sections += 1
Counted(status, processed, expected) ==
    IF processed >= expected /\ status # "failed" THEN "completed" ELSE status

\* the worker's position after _handle_message returned True
Handled(w, outcome) ==
    /\ dheld' = [dheld EXCEPT ![w].at = "ack"]
    /\ dout' = [dout EXCEPT ![dheld[w].o] = outcome]

\* DiffWorker._handle_message -> _finalize_noop: both sections exist with equal text
DiffFinalizeNoop(w) ==
    /\ dheld[w].at = "popped"
    /\ dexists
    /\ dprocessed' = dprocessed + 1
    /\ dstatus' = Counted(Started(dstatus), dprocessed + 1, dexpected)
    /\ Handled(w, "noop")
    /\ UNCHANGED <<dexists, dexpected, drows, dtopush, dq, dproc, dscheds, dredel>>
    /\ DiffFrame

\* DiffWorker._handle_message -> _persist_results: the section's FilingSectionDiff rows
\* are deleted and one row per change is inserted
DiffPersistResults(w, changes) ==
    /\ dheld[w].at = "popped"
    /\ dexists
    /\ drows' = IF changes THEN drows \cup {dheld[w].o} ELSE drows \ {dheld[w].o}
    /\ dprocessed' = dprocessed + 1
    /\ dstatus' = Counted(Started(dstatus), dprocessed + 1, dexpected)
    /\ Handled(w, IF changes THEN "changes" ELSE "nochange")
    /\ UNCHANGED <<dexists, dexpected, dtopush, dq, dproc, dscheds, dredel>>
    /\ DiffFrame

\* DiffWorker._handle_message -> _mark_failed: FatalDiffError or unparsable answer
DiffMarkFailed(w) ==
    /\ dheld[w].at = "popped"
    /\ dexists
    /\ dstatus' = "failed"
    /\ dprocessed' = dexpected
    /\ Handled(w, "failed")
    /\ UNCHANGED <<dexists, dexpected, drows, dtopush, dq, dproc, dscheds, dredel>>
    /\ DiffFrame

\* DiffWorker.run: _handle_message raised and `except Exception` logged it (the only
\* way a handling ends without ack: RetryableDiffError is never raised): no write, no ack
DiffCrashed(w) ==
    /\ dheld[w].at = "popped"
    /\ dheld' = [dheld EXCEPT ![w] = NoTask]
    /\ UNCHANGED <<dexists, dstatus, dexpected, dprocessed, drows, dtopush, dq, dproc,
                   dout, dscheds, dredel>>
    /\ DiffFrame

\* DiffWorker.run: queue.ack(message); an ack of a delivery that was reclaimed is a no-op
DiffAck(w) ==
    /\ dheld[w].at = "ack"
    /\ LET o == dheld[w].o
       IN  dproc' = IF o \in DOMAIN dproc /\ dproc[o] = w THEN Without(dproc, o) ELSE dproc
    /\ dheld' = [dheld EXCEPT ![w] = NoTask]
    /\ UNCHANGED <<dexists, dstatus, dexpected, dprocessed, drows, dtopush, dq, dout,
                   dscheds, dredel>>
    /\ DiffFrame

DiffNext ==
    \/ \E n \in 1..MaxSections : DiffSchedule(n)
    \/ DiffPush
    \/ \E w \in Workers, o \in Ordinals : DiffPop(w, o)
    \/ \E o \in Ordinals : DiffRedeliver(o)
    \/ \E w \in Workers : DiffFinalizeNoop(w)
    \/ \E w \in Workers, changes \in BOOLEAN : DiffPersistResults(w, changes)
    \/ \E w \in Workers : DiffMarkFailed(w)
    \/ \E w \in Workers : DiffCrashed(w)
    \/ \E w \in Workers : DiffAck(w)

DiffSpec == AllIdle /\ [][DiffNext]_vars

\* C11: processed_sections of the Diff row stays between 0 and expected_sections.
C11_ProcessedWithinExpected ==
    dexists => (0 <= dprocessed /\ dprocessed <= dexpected)

\* C12: the Diff row is COMPLETED exactly when processed_sections equals
\* expected_sections and the status is not FAILED.
C12_CompletedIffEqual ==
    dexists => ((dstatus = "completed") <=> (dprocessed = dexpected /\ dstatus # "failed"))

\* the step is diff worker w handling its task with the same outcome as the task's
\* previous handling in this run
C13_HandlesAgain(w) ==
    /\ dheld[w].at = "popped"
    /\ dheld'[w].at = "ack"
    /\ dout[dheld[w].o] # "-"
    /\ dout'[dheld[w].o] = dout[dheld[w].o]

\* C13: handling the same DiffTask a second time leaves the Diff row's status and
\* processed_sections and the section's FilingSectionDiff rows as the first handling
\* left them.
C13_DiffJobIdempotent ==
    [][\A w \in Workers :
          C13_HandlesAgain(w) => UNCHANGED <<dstatus, dprocessed, drows>>]_vars

\* C30: a step of a diff worker moves the Diff row's status only forward, from PENDING
\* or SKIPPED to PROCESSING to COMPLETED, or to FAILED: a handling that counts a section
\* takes the row out of PENDING, the one that brings processed_sections up to
\* expected_sections sets COMPLETED, and a row that is COMPLETED or FAILED keeps its
\* status until the parser schedules the diff again.
C30_StatusOnlyForward ==
    [][(dexists /\ dscheds' = dscheds) =>
            /\ dstatus \in {"completed", "failed"} => dstatus' = dstatus
            /\ dstatus = "processing" => dstatus' \in {"processing", "completed", "failed"}
            /\ (dstatus \in {"pending", "skipped"} /\ dprocessed' # dprocessed) =>
                    dstatus' \in {"processing", "completed", "failed"}
            /\ (dprocessed' = dprocessed + 1 /\ dprocessed' = dexpected) =>
                    dstatus' \in {"completed", "failed"}]_vars

\* C38: whenever the Diff row is COMPLETED, every ordinal of its expected sections has
\* been persisted or finalised as a no-op by some diff job since the row was last
\* scheduled.
C38_CompletedMeansAllHandled ==
    (dexists /\ dstatus = "completed") =>
        \A o \in 1..dexpected : dout[o] \in {"noop", "changes", "nochange"}

(***************************************************************************)
(* Part 5. One filing: download workers fetch its artifacts and set the    *)
(* filing status, parser workers replace its sections.  The datastore runs *)
(* transactions at READ COMMITTED: a statement sees the rows committed     *)
(* when it starts, a transaction's writes appear at its commit.            *)
(***************************************************************************)

\* artifacts of a download task: submission.txt and index.html, or index.html only
MaxArtifacts == 2
\* deliveries of the download task (the first, and redeliveries after the visibility
\* timeout) one behaviour may make
MaxDownloadDeliveries == 2

FilingFrame == UNCHANGED <<qvars, pvars, bvars, dvars, avars, kvars, ivars, cvars, svvars, gvars, lvars, hvars, schvars, blvars, chvars>>

\* DownloadWorker.run: pop returns the download task; _build_artifacts gives the same
\* n artifacts for every delivery of the task
DownloadPop(w, n) ==
    /\ dlpc[w] = "idle"
    /\ dldeliv < MaxDownloadDeliveries
    /\ ~dlacked
    /\ \A v \in Workers : dlart[v].n \in {0, n}
    /\ dldeliv' = dldeliv + 1
    /\ dlpc' = [dlpc EXCEPT ![w] = "artifact"]
    /\ dlart' = [dlart EXCEPT ![w] = [n |-> n, done |-> 0]]
    /\ dlres' = [dlres EXCEPT ![w] = NoRun]
    /\ UNCHANGED <<fstatus, fsections, fcommit, fparseq, fpc, ftxn, dlacked, fjobs>>
    /\ FilingFrame

\* a loop that leaves for the parse push after its first artifact
PushAfterFirst(done, n) == "push"

\* _handle_task: `for spec in artifacts` goes on to the next artifact, or is over and
\* the parse task is pushed
AfterArtifact(done, n) == IF done = n THEN "push" ELSE "artifact"

\* _handle_task, one artifact: fetch, store and _persist_metadata succeed; the
\* transaction creates the filing row if needed and sets status DOWNLOADED
DownloadArtifactOk(w) ==
    /\ dlpc[w] = "artifact"
    /\ fstatus' = "downloaded"
    /\ dlart' = [dlart EXCEPT ![w].done = @ + 1]
    /\ dlpc' = [dlpc EXCEPT ![w] = AfterArtifact(dlart[w].done + 1, dlart[w].n)]
    /\ UNCHANGED <<fsections, fcommit, fparseq, fpc, ftxn, dlres, dldeliv, dlacked, fjobs>>
    /\ FilingFrame

\* _handle_task, one artifact: the fetch, the store or _persist_metadata raises;
\* _mark_failed sets status FAILED in its own transaction, _handle_task returns
DownloadArtifactFails(w) ==
    /\ dlpc[w] = "artifact"
    /\ fstatus' = "failed"
    /\ dlres' = [dlres EXCEPT ![w].failed = TRUE]
    /\ dlpc' = [dlpc EXCEPT ![w] = "ack"]
    /\ UNCHANGED <<fsections, fcommit, fparseq, fpc, ftxn, dlart, dldeliv, dlacked, fjobs>>
    /\ FilingFrame

\* _handle_task, after the loop: parse_queue.push(ParseTask(accession))
DownloadPushParse(w) ==
    /\ dlpc[w] = "push"
    /\ fparseq' = fparseq + 1
    /\ dlres' = [dlres EXCEPT ![w].pushed = TRUE]
    /\ dlpc' = [dlpc EXCEPT ![w] = "ack"]
    /\ UNCHANGED <<fstatus, fsections, fcommit, fpc, ftxn, dlart, dldeliv, dlacked, fjobs>>
    /\ FilingFrame

\* DownloadWorker.run, finally: queue.ack(message)
DownloadAck(w) ==
    /\ dlpc[w] = "ack"
    /\ dlacked' = TRUE
    /\ dlpc' = [dlpc EXCEPT ![w] = "idle"]
    /\ UNCHANGED <<fstatus, fsections, fcommit, fparseq, fpc, ftxn, dlart, dlres, dldeliv, fjobs>>
    /\ FilingFrame

\* ParserWorker.run: pop returns a ParseTask for the accession
FilingParsePop(w) ==
    /\ fpc[w] = "idle"
    /\ fparseq > 0
    /\ fparseq' = fparseq - 1
    /\ fpc' = [fpc EXCEPT ![w] = "parse"]
    /\ UNCHANGED <<fstatus, fsections, fcommit, ftxn, dlpc, dlart, dlres, dldeliv, dlacked, fjobs>>
    /\ FilingFrame

\* ParserWorker._handle_task: _parse_task raises; _mark_failed sets status FAILED
FilingParseFails(w) ==
    /\ fpc[w] = "parse"
    /\ fstatus' = IF fstatus = "none" THEN fstatus ELSE "failed"
    /\ fpc' = [fpc EXCEPT ![w] = "idle"]
    /\ UNCHANGED <<fsections, fcommit, fparseq, ftxn, dlpc, dlart, dlres, dldeliv, dlacked, fjobs>>
    /\ FilingFrame

\* ParserWorker._handle_task: n sections parsed; the transaction selects the filing
\* (no lock), deletes the section rows it sees and adds sections 1..n to the session
FilingParseBegin(w, n) ==
    /\ fpc[w] = "parse"
    /\ fstatus # "none"
    /\ ftxn' = [ftxn EXCEPT ![w] = [del |-> fsections, n |-> n]]
    /\ fpc' = [fpc EXCEPT ![w] = "commit"]
    /\ UNCHANGED <<fstatus, fsections, fcommit, fparseq, dlpc, dlart, dlres, dldeliv,
                   dlacked, fjobs>>
    /\ FilingFrame

\* the section rows of the filing after a parse transaction commits
SectionsAfter(txn, c) == (fsections \ txn.del) \cup {<<i, c>> : i \in 1..txn.n}

\* ParserWorker._handle_task: filing.status = PARSED and the commit
FilingParseCommit(w) ==
    /\ fpc[w] = "commit"
    /\ fcommit' = fcommit + 1
    /\ fsections' = SectionsAfter(ftxn[w], fcommit + 1)
    /\ fstatus' = "parsed"
    /\ ftxn' = [ftxn EXCEPT ![w] = NoTxn]
    /\ fpc' = [fpc EXCEPT ![w] = "chunks"]
    /\ UNCHANGED <<fparseq, dlpc, dlart, dlres, dldeliv, dlacked, fjobs>>
    /\ FilingFrame

\* ParserWorker._handle_task after the commit: the planner's jobs are pushed to every
\* chunk target
FilingPushChunks(w) ==
    /\ fpc[w] = "chunks"
    /\ fjobs' = [fjobs EXCEPT !.chunk = @ + 1]
    /\ fpc' = [fpc EXCEPT ![w] = "diffs"]
    /\ UNCHANGED <<fstatus, fsections, fcommit, fparseq, ftxn, dlpc, dlart, dlres, dldeliv,
                   dlacked>>
    /\ FilingFrame

\* a push of the fan-out (or a backpressure wait) raises: the exception leaves
\* _handle_task, with the jobs pushed before it enqueued or none
FilingPushChunksFails(w, pushed) ==
    /\ fpc[w] = "chunks"
    /\ fjobs' = [fjobs EXCEPT !.chunk = @ + pushed]
    /\ fpc' = [fpc EXCEPT ![w] = "chunk_crash"]
    /\ UNCHANGED <<fstatus, fsections, fcommit, fparseq, ftxn, dlpc, dlart, dlres, dldeliv,
                   dlacked>>
    /\ FilingFrame

\* _schedule_diff_jobs returns: the diff tasks of the filing are enqueued
FilingScheduleDiffs(w) ==
    /\ fpc[w] = "diffs"
    /\ fjobs' = [fjobs EXCEPT !.diff = @ + 1]
    /\ fpc' = [fpc EXCEPT ![w] = "idle"]
    /\ UNCHANGED <<fstatus, fsections, fcommit, fparseq, ftxn, dlpc, dlart, dlres, dldeliv,
                   dlacked>>
    /\ FilingFrame

\* _schedule_diff_jobs raises (its transaction, or a push after its commit): it has no
\* handler and neither has its call in _handle_task
FilingScheduleFails(w, pushed) ==
    /\ fpc[w] = "diffs"
    /\ fjobs' = [fjobs EXCEPT !.diff = @ + pushed]
    /\ fpc' = [fpc EXCEPT ![w] = "diff_crash"]
    /\ UNCHANGED <<fstatus, fsections, fcommit, fparseq, ftxn, dlpc, dlart, dlres, dldeliv,
                   dlacked>>
    /\ FilingFrame

\* ParserWorker.run, `except Exception`: "Parser worker crashed" is logged and
\* _mark_failed sets status FAILED
FilingCrashed(w) ==
    /\ fpc[w] \in {"chunk_crash", "diff_crash"}
    /\ fstatus' = "failed"
    /\ fpc' = [fpc EXCEPT ![w] = "idle"]
    /\ UNCHANGED <<fsections, fcommit, fparseq, ftxn, dlpc, dlart, dlres, dldeliv,
                   dlacked, fjobs>>
    /\ FilingFrame

FilingNext ==
    \/ \E w \in Workers, n \in 1..MaxArtifacts : DownloadPop(w, n)
    \/ \E w \in Workers : DownloadArtifactOk(w)
    \/ \E w \in Workers : DownloadArtifactFails(w)
    \/ \E w \in Workers : DownloadPushParse(w)
    \/ \E w \in Workers : DownloadAck(w)
    \/ \E w \in Workers : FilingParsePop(w)
    \/ \E w \in Workers : FilingParseFails(w)
    \/ \E w \in Workers, n \in 1..MaxSections : FilingParseBegin(w, n)
    \/ \E w \in Workers : FilingParseCommit(w)
    \/ \E w \in Workers : FilingPushChunks(w)
    \/ \E w \in Workers, pushed \in {0, 1} : FilingPushChunksFails(w, pushed)
    \/ \E w \in Workers : FilingScheduleDiffs(w)
    \/ \E w \in Workers, pushed \in {0, 1} : FilingScheduleFails(w, pushed)
    \/ \E w \in Workers : FilingCrashed(w)

FilingSpec == AllIdle /\ [][FilingNext]_vars

\* C14: the sections of a PARSED filing have ordinals exactly 1..N, each once, and
\* come from one parse commit.
C14_DenseSingleCommit ==
    fstatus = "parsed" =>
        \E c \in 1..fcommit, n \in 0..MaxSections :
            fsections = {<<i, c>> : i \in 1..n}

\* position of a status in the lifecycle PENDING < DOWNLOADED < PARSED < ANALYZED
StatusRank(status) ==
    CASE status = "none" -> 0
      [] status = "pending" -> 1
      [] status = "downloaded" -> 2
      [] status = "parsed" -> 3
      [] status = "analyzed" -> 4
      [] OTHER -> 5

\* C18: under the pipeline's actions the filing status never moves backward in
\* PENDING < DOWNLOADED < PARSED < ANALYZED, and a FAILED filing stays FAILED.
C18_StatusMonotone ==
    [][/\ fstatus = "failed" => fstatus' = "failed"
       /\ fstatus' # "failed" => StatusRank(fstatus') >= StatusRank(fstatus)]_vars

\* what each download worker's current handling has done is consistent: a parse task
\* was pushed only after every artifact succeeded, and never after a failure
C19_PushOnlyAfterAll ==
    \A w \in Workers :
        /\ dlres[w].pushed => (~dlres[w].failed /\ dlart[w].done = dlart[w].n)
        /\ dlres[w].failed => (~dlres[w].pushed /\ dlpc[w] \in {"ack", "idle"})

\* the step in which an artifact fails marks the filing FAILED and pushes nothing, and
\* a handling ends only with the ack of the download task
C19_FailureStep ==
    \A w \in Workers :
        /\ (dlpc[w] = "artifact" /\ dlres'[w].failed) =>
               (fstatus' = "failed" /\ fparseq' = fparseq /\ dlpc'[w] = "ack")
        /\ (dlpc[w] # "idle" /\ dlpc'[w] = "idle") => dlacked'

C34_ParseFailureVersusScheduleFailure ==
    [][\A w \in Workers :
        /\ (fpc[w] = "parse" /\ fpc'[w] = "idle") =>
               (fstatus' = "failed" /\ fsections' = fsections /\ fjobs' = fjobs)
        /\ (fpc[w] = "diffs" /\ fpc'[w] = "diff_crash") =>
               (fsections' = fsections /\ fstatus' = fstatus)
        /\ (fpc[w] = "diff_crash" /\ fpc'[w] = "idle") =>
               (fsections' = fsections /\ (fstatus = "parsed" => fstatus' = "parsed"))]_vars

MaxAnalysisRuns == 4

AnalysisFrame == UNCHANGED <<qvars, pvars, bvars, dvars, fvars, kvars, ivars, cvars, svvars, gvars, lvars, hvars, schvars, blvars, chvars>>

\* ids of the committed rows with job id j
RowsOf(j) == {i \in DOMAIN arows : arows[i].job = j}

\* a table without the constraint accepts every insert
NoConstraint(j) == FALSE

\* FilingAnalysis.job_id is unique=True: the insert of a second row for j is rejected
UniqueViolation(j) == RowsOf(j) # {}

\* SectionSummaryWorker._persist_analysis: SELECT ... WHERE job_id = :job_id LIMIT 1
AnalysisSelect(w, j) ==
    /\ apc[w] = "idle"
    /\ aruns < MaxAnalysisRuns
    /\ aruns' = aruns + 1
    /\ aread' = [aread EXCEPT ![w] =
                    [job |-> j,
                     found |-> IF RowsOf(j) = {} THEN 0 ELSE CHOOSE i \in RowsOf(j) : TRUE]]
    /\ apc' = [apc EXCEPT ![w] = "write"]
    /\ UNCHANGED <<arows, arejected>>
    /\ AnalysisFrame

\* _persist_analysis: existing row found: its columns are overwritten; commit
AnalysisUpdate(w) ==
    /\ apc[w] = "write"
    /\ aread[w].found # 0
    /\ arows' = [arows EXCEPT ![aread[w].found].writes = @ + 1]
    /\ apc' = [apc EXCEPT ![w] = "idle"]
    /\ aread' = [aread EXCEPT ![w] = NoRead]
    /\ UNCHANGED <<aruns, arejected>>
    /\ AnalysisFrame

\* _persist_analysis: no row found: session.add(FilingAnalysis(job_id=...)); commit, or
\* IntegrityError when a row with the job id was committed in the meantime
AnalysisInsert(w) ==
    /\ apc[w] = "write"
    /\ aread[w].found = 0
    /\ IF UniqueViolation(aread[w].job)
       THEN /\ arejected' = arejected + 1
            /\ UNCHANGED arows
       ELSE /\ arows' = With(arows, Len(arows) + 1, [job |-> aread[w].job, writes |-> 1])
            /\ UNCHANGED arejected
    /\ apc' = [apc EXCEPT ![w] = "idle"]
    /\ aread' = [aread EXCEPT ![w] = NoRead]
    /\ UNCHANGED aruns
    /\ AnalysisFrame

AnalysisNext ==
    \/ \E w \in Workers, j \in Jobs : AnalysisSelect(w, j)
    \/ \E w \in Workers : AnalysisUpdate(w)
    \/ \E w \in Workers : AnalysisInsert(w)

AnalysisSpec == AllIdle /\ [][AnalysisNext]_vars

\* no two rows carry the same job id
C15_NoSharedJobId ==
    \A i1, i2 \in DOMAIN arows : arows[i1].job = arows[i2].job => i1 = i2

\* a call that found a row for its job id writes that row and adds none
C15_RerunInPlace ==
    \A w \in Workers :
        (apc[w] = "write" /\ apc'[w] = "idle" /\ aread[w].found # 0) =>
            /\ DOMAIN arows' = DOMAIN arows
            /\ arows'[aread[w].found].writes = arows[aread[w].found].writes + 1

\* C15: no two Analysis rows share a job id, also when one job is handled by two
\* workers concurrently; a re-run with an existing job id updates the row in place.
C15_UniqueJobId ==
    /\ []C15_NoSharedJobId
    /\ [][C15_RerunInPlace]_vars

\* a job was re-run in place, and a concurrent second insert for a job was rejected
C15_Witness ==
    /\ \E i \in DOMAIN arows : arows[i].writes >= 2
    /\ arejected >= 1

(***************************************************************************)
(* Part 7. Chunk planning and the parser's fan-out to the summary queue.   *)
(***************************************************************************)

\* chunks _chunk_section may cut a section into
MaxChunks == 2
\* values of the clock
MaxPlanTime == 2
\* plans (parses of the filing) one behaviour may make
MaxPlans == 2

PlanFrame == UNCHANGED <<qvars, pvars, bvars, dvars, fvars, avars, ivars, cvars, svvars, gvars, lvars, hvars, schvars, blvars, chvars>>

\* ChunkPlanner.plan: job_id = f"{accession_number}-{int(time.time())}", computed once
\* before the loops
PlanJobId(accession, clock) == <<accession, clock>>

\* ChunkPlanner.plan: the tasks of section `ordinal` cut into n chunks, chunk_index
\* from enumerate(chunks)
SectionTasks(accession, ordinal, n, clock) ==
    [i \in 1..n |-> [job_id |-> PlanJobId(accession, clock),
                     accession |-> accession,
                     ordinal |-> ordinal,
                     chunk |-> i - 1]]

\* ChunkPlanner.plan: for section in sections: for i, chunk in enumerate(chunks)
RECURSIVE PlanTasks(_, _, _, _)
PlanTasks(accession, chunks, from, clock) ==
    IF from > Len(chunks) THEN <<>>
    ELSE SectionTasks(accession, from, chunks[from], clock)
             \o PlanTasks(accession, chunks, from + 1, clock)

\* ParserWorker._handle_task: jobs = chunk_planner.plan(accession, planner_sections);
\* chunks[o] is the number of chunks of section o
ChunkPlan(chunks) ==
    /\ kplans < MaxPlans
    /\ kidx = Len(ktasks)
    /\ kplans' = kplans + 1
    /\ ktasks' = PlanTasks("a1", chunks, 1, kclock)
    /\ kidx' = 0
    /\ kaccepted' = 0
    /\ UNCHANGED <<kclock, kq, kdedupe>>
    /\ PlanFrame

\* ParserWorker._handle_task: for job in jobs: target.queue.push(job), summary target
\* (suffix ""); the queue refuses a job id that is in its dedupe set
ChunkFanOut ==
    /\ kidx < Len(ktasks)
    /\ LET task == ktasks[kidx + 1]
       IN  IF task.job_id \in kdedupe
           THEN UNCHANGED <<kq, kdedupe, kaccepted>>
           ELSE /\ kq' = Append(kq, task)
                /\ kdedupe' = kdedupe \cup {task.job_id}
                /\ kaccepted' = kaccepted + 1
    /\ kidx' = kidx + 1
    /\ UNCHANGED <<kclock, ktasks, kplans>>
    /\ PlanFrame

\* a summary worker pops the head task, handles it and acks it
ChunkConsume ==
    /\ kq # <<>>
    /\ kidx = Len(ktasks)
    /\ kq' = Tail(kq)
    /\ kdedupe' = kdedupe \ {Head(kq).job_id}
    /\ UNCHANGED <<kclock, ktasks, kidx, kaccepted, kplans>>
    /\ PlanFrame

\* a second passes
PlanTick ==
    /\ kclock < MaxPlanTime
    /\ kclock' = kclock + 1
    /\ UNCHANGED <<ktasks, kidx, kaccepted, kq, kdedupe, kplans>>
    /\ PlanFrame

PlanNext ==
    \/ \E n \in 1..MaxSections : \E chunks \in [1..n -> 1..MaxChunks] : ChunkPlan(chunks)
    \/ ChunkFanOut
    \/ ChunkConsume
    \/ PlanTick

PlanSpec == AllIdle /\ [][PlanNext]_vars

\* the job id <accession>:<section_ordinal>:<chunk_index>
ChunkJobId(task) == <<task.accession, task.ordinal, task.chunk>>

\* C16: every planned ChunkTask has the job id <accession>:<ordinal>:<chunk_index>,
\* and when the fan-out is over the summary queue has accepted one task per planned
\* chunk.
C16_OneTaskPerChunk ==
    /\ \A i \in DOMAIN ktasks : ktasks[i].job_id = ChunkJobId(ktasks[i])
    /\ kidx = Len(ktasks) => kaccepted = Len(ktasks)

\* ===========================================================================
\* Part 8. Ingestion: pollers, the seen set and the download publisher
\* (ingestion/poller.py, ingestion/state.py, ingestion/queue.py)
\* ===========================================================================

MaxFeedLen == 2

MaxPollCycles == 3

\* what one fetch of a feed can return
Feeds == UNION {[1..n -> FeedAccessions] : n \in 0..MaxFeedLen}

PollFrame == UNCHANGED <<qvars, pvars, bvars, dvars, fvars, avars, kvars, cvars, svvars, gvars, lvars, hvars, schvars, blvars, chvars>>

\* a store that calls every accession number new
AlwaysNew(accession_number, store) == TRUE

\* mark_seen: SADD answers 1, or the in-memory store answers True under its lock,
\* exactly when the accession number was not in the set
IsNew(accession_number, store) == accession_number \notin store

\* _run_once: the fetch succeeded and returned entries; run starts cycles for as long
\* as the poller lives, and the count of them stops at MaxPollCycles
PollFetch(p, entries) ==
    /\ pollpc[p] = "idle"
    /\ pollcycles' = Min(pollcycles + 1, MaxPollCycles)
    /\ pollq' = [pollq EXCEPT ![p] = entries]
    /\ pollpc' = [pollpc EXCEPT ![p] = "loop"]
    /\ UNCHANGED <<seen, published, polldups>>
    /\ PollFrame

\* _run_once: the fetch raised; the cycle ends without looking at any entry
PollFetchFails(p) ==
    /\ pollpc[p] = "idle"
    /\ pollcycles' = Min(pollcycles + 1, MaxPollCycles)
    /\ UNCHANGED <<seen, published, pollq, pollpc, polldups>>
    /\ PollFrame

\* the loop body up to the end of mark_seen: an entry without accession number is
\* skipped, any other is marked seen, and only a new one goes on to be published
PollMarkSeen(p) ==
    /\ pollpc[p] = "loop"
    /\ pollq[p] # <<>>
    /\ LET acc == Head(pollq[p]) IN
        IF acc = ""
        THEN /\ pollq' = [pollq EXCEPT ![p] = Tail(@)]
             /\ UNCHANGED <<seen, pollpc, polldups>>
        ELSE IF IsNew(acc, seen)
        THEN /\ seen' = seen \cup {acc}
             /\ pollpc' = [pollpc EXCEPT ![p] = "publish"]
             /\ UNCHANGED <<pollq, polldups>>
        ELSE /\ pollq' = [pollq EXCEPT ![p] = Tail(@)]
             /\ polldups' = polldups \cup {acc}
             /\ UNCHANGED <<seen, pollpc>>
    /\ UNCHANGED <<published, pollcycles>>
    /\ PollFrame

\* publish_download: the task of the entry is appended to the download queue
PollPublish(p) ==
    /\ pollpc[p] = "publish"
    /\ published' = [published EXCEPT ![Head(pollq[p])] = @ + 1]
    /\ pollq' = [pollq EXCEPT ![p] = Tail(@)]
    /\ pollpc' = [pollpc EXCEPT ![p] = "loop"]
    /\ UNCHANGED <<seen, pollcycles, polldups>>
    /\ PollFrame

\* publish_download raised: the exception leaves _run_once and run, the poller's task
\* ends, and the accession number stays in the seen set
PollPublishFails(p) ==
    /\ pollpc[p] = "publish"
    /\ pollq' = [pollq EXCEPT ![p] = <<>>]
    /\ pollpc' = [pollpc EXCEPT ![p] = "stopped"]
    /\ UNCHANGED <<seen, published, pollcycles, polldups>>
    /\ PollFrame

\* the loop is over; run waits for the interval and starts the next cycle
PollCycleDone(p) ==
    /\ pollpc[p] = "loop"
    /\ pollq[p] = <<>>
    /\ pollpc' = [pollpc EXCEPT ![p] = "idle"]
    /\ UNCHANGED <<seen, published, pollq, pollcycles, polldups>>
    /\ PollFrame

PollNext ==
    \/ \E p \in Pollers, entries \in Feeds : PollFetch(p, entries)
    \/ \E p \in Pollers : PollFetchFails(p)
    \/ \E p \in Pollers : PollMarkSeen(p)
    \/ \E p \in Pollers : PollPublish(p)
    \/ \E p \in Pollers : PollPublishFails(p)
    \/ \E p \in Pollers : PollCycleDone(p)

PollSpec == AllIdle /\ [][PollNext]_vars

\* C17: whatever the pollers and their cycles do, no accession number has more than
\* one download task published, and the empty accession number has none.
C17_AtMostOnePublished ==
    /\ \A a \in FeedAccessions : published[a] <= 1
    /\ published[""] = 0

\* a1 has been published once and another look at a1, in a later cycle or by the
\* other poller, was turned away by the seen set, while a poller stands between
\* mark_seen and publish_download for a2
C17_Witness ==
    /\ published["a1"] = 1
    /\ "a1" \in polldups
    /\ \E p \in Pollers : pollpc[p] = "publish" /\ Head(pollq[p]) = "a2"
                          /\ Len(pollq[p]) = 1

\* the pollers keep running: whenever some step of a poller is possible, one is taken
PollLiveSpec == AllIdle /\ [][PollNext]_vars /\ WF_vars(PollNext)

\* C40: every accession number in the seen set has had its download task published or
\* gets it published by a later step of a poller.
C40_SeenIsEventuallyPublished ==
    \A a \in FeedAccessions \ {""} : (a \in seen) ~> (published[a] >= 1)

\* ===========================================================================
\* Part 9. Issuers: download workers that get or create the Company of a task
\* (downloader/worker.py, ingestion/models.py, models/company.py)
\* ===========================================================================

MaxDownloadRuns == 3

\* the attributes a DownloadTask has; the dataclass is declared with slots, so reading
\* any other attribute raises AttributeError
DownloadTaskFields ==
    {"accession_number", "cik", "form_type", "filing_href", "filed_at", "ticker",
     "summary"}

HasField(name) == name \in DownloadTaskFields

CompanyFrame == UNCHANGED <<qvars, pvars, bvars, dvars, fvars, avars, kvars, ivars, svvars, gvars, lvars, hvars, schvars, blvars, chvars>>

\* run pops a download task and _handle_task reaches _persist_metadata, which opens
\* its transaction
CompanyBegin(w, acc, cik) ==
    /\ cpc[w] = "idle"
    /\ cruns < MaxDownloadRuns
    /\ cruns' = cruns + 1
    /\ ctask' = [ctask EXCEPT ![w] = [accession_number |-> acc, cik |-> cik]]
    /\ cnew' = [cnew EXCEPT ![w] = crows[cik] = 0]
    /\ cres' = [cres EXCEPT ![w] = "none"]
    /\ cpc' = [cpc EXCEPT ![w] = "select"]
    /\ UNCHANGED crows
    /\ CompanyFrame

\* _get_or_create_company, first SELECT: a company found is returned, and the rest of
\* _persist_metadata writes the filing and the blob and commits
CompanySelect(w) ==
    /\ cpc[w] = "select"
    /\ IF crows[ctask[w].cik] > 0
       THEN /\ cres' = [cres EXCEPT ![w] = "ok"]
            /\ cpc' = [cpc EXCEPT ![w] = "idle"]
       ELSE /\ cpc' = [cpc EXCEPT ![w] = "insert"]
            /\ UNCHANGED cres
    /\ UNCHANGED <<crows, ctask, cnew, cruns>>
    /\ CompanyFrame

\* _get_or_create_company after a SELECT that found nothing. Building the INSERT reads
\* task.company_name: a task without that attribute raises AttributeError, which is
\* not the IntegrityError the try block catches, so _persist_metadata fails and its
\* transaction is rolled back. With the attribute, the INSERT either adds the row or
\* is refused by the unique constraint on cik, and the second SELECT finds the row.
CompanyInsert(w) ==
    /\ cpc[w] = "insert"
    /\ IF ~HasField("company_name")
       THEN /\ cpc' = [cpc EXCEPT ![w] = "failed"]
            /\ UNCHANGED <<crows, cres>>
       ELSE /\ crows' = [crows EXCEPT ![ctask[w].cik] = IF @ > 0 THEN @ ELSE 1]
            /\ cres' = [cres EXCEPT ![w] = "ok"]
            /\ cpc' = [cpc EXCEPT ![w] = "idle"]
    /\ UNCHANGED <<ctask, cnew, cruns>>
    /\ CompanyFrame

\* _handle_task caught the failure and calls _mark_failed. The accession has no filing
\* row, so _mark_failed calls _get_or_create_company itself: if the company is there
\* by now the filing is created and marked FAILED; if not, the AttributeError is raised
\* again and leaves _handle_task, and run logs the crash and acks the task.
CompanyMarkFailed(w) ==
    /\ cpc[w] = "failed"
    /\ cres' = [cres EXCEPT ![w] =
                    IF crows[ctask[w].cik] > 0 \/ HasField("company_name")
                    THEN "failed" ELSE "crashed"]
    /\ crows' = [crows EXCEPT ![ctask[w].cik] =
                    IF @ = 0 /\ HasField("company_name") THEN 1 ELSE @]
    /\ cpc' = [cpc EXCEPT ![w] = "idle"]
    /\ UNCHANGED <<ctask, cnew, cruns>>
    /\ CompanyFrame

CompanyNext ==
    \/ \E w \in Workers, acc \in Accessions, cik \in Ciks : CompanyBegin(w, acc, cik)
    \/ \E w \in Workers : CompanySelect(w)
    \/ \E w \in Workers : CompanyInsert(w)
    \/ \E w \in Workers : CompanyMarkFailed(w)

CompanySpec == AllIdle /\ [][CompanyNext]_vars

\* C20: when the download workers have handled tasks of different accessions that
\* share an issuer which had no row when they began, there is exactly one Company row
\* for that cik and every one of the workers completed its transaction.
C20_OneIssuerRowAllComplete ==
    \A c \in Ciks :
        ( /\ \A w \in Workers : cpc[w] = "idle" /\ ctask[w].cik = c /\ cnew[w]
          /\ \A v, w \in Workers : v # w =>
                ctask[v].accession_number # ctask[w].accession_number )
        => /\ crows[c] = 1
           /\ \A w \in Workers : cres[w] = "ok"

\* ===========================================================================
\* Part 10. Service stop: DownloadService.stop and the run loop of its workers
\* (downloader/service.py, downloader/worker.py)
\* ===========================================================================

ServiceFrame == UNCHANGED <<qvars, pvars, bvars, dvars, fvars, avars, kvars, ivars, cvars, gvars, lvars, hvars, schvars, blvars, chvars>>

\* DownloadService.enqueue
ServiceEnqueue(j) ==
    /\ ~stop_event
    /\ svjob[j] = "none"
    /\ svjob' = [svjob EXCEPT ![j] = "queued"]
    /\ UNCHANGED <<stop_event, svpc, svheld, svcancelled, svhandled>>
    /\ ServiceFrame

\* where run goes after one turn of its loop: `while not stop_event.is_set()`
LoopAgain(w) == IF svcancelled[w] \/ stop_event THEN "ended" ELSE "pop"

\* run: pop returned a message, and _handle_task is entered
ServicePop(w, j) ==
    /\ svpc[w] = "pop"
    /\ svjob[j] = "queued"
    /\ svjob' = [svjob EXCEPT ![j] = "inflight"]
    /\ svheld' = [svheld EXCEPT ![w] = j]
    /\ svpc' = [svpc EXCEPT ![w] = "handle"]
    /\ UNCHANGED <<stop_event, svcancelled, svhandled>>
    /\ ServiceFrame

\* pop, _requeue_expired: the visibility timeout of a message in flight has passed and
\* the pop of worker w puts it back on the queue
ServiceReclaim(w, j) ==
    /\ svpc[w] = "pop"
    /\ svjob[j] = "inflight"
    /\ svjob' = [svjob EXCEPT ![j] = "queued"]
    /\ UNCHANGED <<stop_event, svpc, svheld, svcancelled, svhandled>>
    /\ ServiceFrame

\* run: pop timed out with None; the loop condition is looked at again
ServicePopTimeout(w) ==
    /\ svpc[w] = "pop"
    /\ svpc' = [svpc EXCEPT ![w] = LoopAgain(w)]
    /\ UNCHANGED <<stop_event, svjob, svheld, svcancelled, svhandled>>
    /\ ServiceFrame

\* run: _handle_task returned (or raised an Exception, which run logs); the finally
\* block goes on to ack
ServiceHandled(w) ==
    /\ svpc[w] = "handle"
    /\ svhandled' = svhandled \cup {svheld[w]}
    /\ svpc' = [svpc EXCEPT ![w] = "ack"]
    /\ UNCHANGED <<stop_event, svjob, svheld, svcancelled>>
    /\ ServiceFrame

\* run, finally block: the ack went through; a pending CancelledError then leaves run
ServiceAck(w) ==
    /\ svpc[w] = "ack"
    /\ svjob' = [svjob EXCEPT ![svheld[w]] = "acked"]
    /\ svheld' = [svheld EXCEPT ![w] = "none"]
    /\ svpc' = [svpc EXCEPT ![w] = LoopAgain(w)]
    /\ UNCHANGED <<stop_event, svcancelled, svhandled>>
    /\ ServiceFrame

\* what task.cancel() does to a worker task suspended at `at`: the CancelledError is
\* raised at that await. Inside _handle_task no `except Exception` catches it, so it
\* reaches the finally block of run, which awaits the ack; inside pop or inside the
\* ack it ends the task.
Cancelled(at) == IF at = "handle" THEN "ack" ELSE "ended"

\* DownloadService.stop: sets the stop event, cancels every worker task, and gathers
\* them
ServiceStop ==
    /\ ~stop_event
    /\ stop_event' = TRUE
    /\ svpc' = [w \in Workers |-> Cancelled(svpc[w])]
    /\ svcancelled' = [w \in Workers |-> TRUE]
    /\ UNCHANGED <<svjob, svheld, svhandled>>
    /\ ServiceFrame

ServiceNext ==
    \/ \E j \in Jobs : ServiceEnqueue(j)
    \/ \E w \in Workers, j \in Jobs : ServicePop(w, j)
    \/ \E w \in Workers, j \in Jobs : ServiceReclaim(w, j)
    \/ \E w \in Workers : ServicePopTimeout(w)
    \/ \E w \in Workers : ServiceHandled(w)
    \/ \E w \in Workers : ServiceAck(w)
    \/ ServiceStop

ServiceSpec == AllIdle /\ [][ServiceNext]_vars

\* C21: stop never interrupts a job in the middle of its handling, and no job is
\* acked without having been handled: a job in flight at stop either completes or
\* stays un-acked.
C21_StopIsCooperative ==
    /\ [][\A w \in Workers : svpc[w] = "handle" => svpc'[w] \in {"handle", "ack"}
                                                    /\ (svpc'[w] = "ack" => svheld[w] \in svhandled')]_vars
    /\ [](\A j \in Jobs : svjob[j] = "acked" => j \in svhandled)

\* ===========================================================================
\* Part 11. Backpressure: QueueBackpressure.wait_if_needed
\* (ingestion/backpressure.py, parsing/service.py, parsing/worker.py)
\* ===========================================================================

MaxThreshold == 2

MaxDepth == 3

MaxGateSamples == 5

GateFrame == UNCHANGED <<qvars, pvars, bvars, dvars, fvars, avars, kvars, ivars, cvars, svvars, lvars, hvars, schvars, blvars, chvars>>

\* a gate that resumes at resume_lo even when it lies above pause_hi
RawResume(pause, resume) == resume

\* resume_threshold = min(self._resume_threshold, pause_threshold)
EffectiveResume(pause, resume) == Min(resume, pause)

\* QueueBackpressure.__init__; the service builds one gate per queue and hands it to
\* every parser worker
GateCreate(pause, resume) ==
    /\ gconf = NoGate
    /\ gconf' = [pause |-> pause, resume |-> resume]
    /\ UNCHANGED <<gpaused, gpc, gcall, glast, gsamples>>
    /\ GateFrame

\* no other caller is inside wait_if_needed
Alone(w) == \A v \in Workers \ {w} : gpc[v] = "out"

\* wait_if_needed is called: a gate whose pause threshold is not positive returns at
\* once, any other enters the loop
GateEnter(w) ==
    /\ gconf # NoGate
    /\ gpc[w] = "out"
    /\ gsamples < MaxGateSamples
    /\ IF gconf.pause <= 0
       THEN /\ gcall' = [gcall EXCEPT ![w] = [NoCall EXCEPT !.how = "disabled"]]
            /\ UNCHANGED gpc
       ELSE /\ gcall' = [v \in Workers |->
                            IF v = w THEN [NoCall EXCEPT !.alone = Alone(w)]
                            ELSE IF gpc[v] = "out" THEN gcall[v]
                            ELSE [gcall[v] EXCEPT !.alone = FALSE]]
            /\ gpc' = [gpc EXCEPT ![w] = "sample"]
    /\ UNCHANGED <<gconf, gpaused, glast, gsamples>>
    /\ GateFrame

\* the record of a call after a sample of depth d taken while the gate was `paused`
Sampled(call, d, paused) ==
    [call EXCEPT !.first = IF call.first = -1 THEN d ELSE @,
                 !.unpaused = IF call.first = -1 THEN ~paused ELSE @,
                 !.last = d]

\* one turn of the loop: the depth is sampled and the gate decides, up to the return
\* or the sleep
GateSample(w, d) ==
    /\ gpc[w] = "sample"
    /\ gsamples < MaxGateSamples
    /\ gsamples' = gsamples + 1
    /\ LET call == Sampled(gcall[w], d, gpaused) IN
        IF gpaused
        THEN IF d <= EffectiveResume(gconf.pause, gconf.resume)
             THEN /\ gpaused' = FALSE
                  /\ glast' = "resume"
                  /\ gcall' = [gcall EXCEPT ![w] =
                                  [call EXCEPT !.resumes = @ + 1, !.how = "resumed"]]
                  /\ gpc' = [gpc EXCEPT ![w] = "out"]
             ELSE /\ gcall' = [gcall EXCEPT ![w] = [call EXCEPT !.slept = TRUE]]
                  /\ gpc' = [gpc EXCEPT ![w] = "sleep"]
                  /\ UNCHANGED <<gpaused, glast>>
        ELSE IF d >= gconf.pause
             THEN /\ gpaused' = TRUE
                  /\ glast' = "pause"
                  /\ gcall' = [gcall EXCEPT ![w] =
                                  [call EXCEPT !.pauses = @ + 1, !.slept = TRUE]]
                  /\ gpc' = [gpc EXCEPT ![w] = "sleep"]
             ELSE /\ gcall' = [gcall EXCEPT ![w] = [call EXCEPT !.how = "clear"]]
                  /\ gpc' = [gpc EXCEPT ![w] = "out"]
                  /\ UNCHANGED <<gpaused, glast>>
    /\ UNCHANGED gconf
    /\ GateFrame

\* asyncio.sleep(check_interval) is over
GateWake(w) ==
    /\ gpc[w] = "sleep"
    /\ gpc' = [gpc EXCEPT ![w] = "sample"]
    /\ UNCHANGED <<gconf, gpaused, gcall, glast, gsamples>>
    /\ GateFrame

GateNext ==
    \/ \E pause \in 0..MaxThreshold, resume \in 0..MaxThreshold + 1 :
            GateCreate(pause, resume)
    \/ \E w \in Workers : GateEnter(w)
    \/ \E w \in Workers, d \in 0..MaxDepth : GateSample(w, d)
    \/ \E w \in Workers : GateWake(w)

GateSpec == AllIdle /\ [][GateNext]_vars

\* the call of w has returned
Returned(w) == gpc[w] = "out" /\ gcall[w].how \in {"resumed", "clear"}

\* the step emits a pause (resume) event
EmitsPause == gpaused' /\ ~gpaused

EmitsResume == gpaused /\ ~gpaused'

\* pause and resume events alternate, starting with pause
GateAlternates ==
    /\ EmitsPause => glast \in {"none", "resume"} /\ glast' = "pause"
    /\ EmitsResume => glast = "pause" /\ glast' = "resume"
    /\ glast' # glast => EmitsPause \/ EmitsResume

\* C22 as stated: a call whose first sample is >= pause_hi with the gate not paused
\* emits exactly one pause and one resume event and returns on a sample
\* <= min(resume_lo, pause_hi); a call whose first sample is < pause_hi returns at once
\* with no event and no sleep; pause and resume events alternate.
C22_PerCallPauseResume ==
    /\ [](\A w \in Workers : Returned(w) =>
            IF gcall[w].first >= gconf.pause
            THEN gcall[w].unpaused =>
                    /\ gcall[w].pauses = 1 /\ gcall[w].resumes = 1
                    /\ gcall[w].last <= Min(gconf.resume, gconf.pause)
            ELSE gcall[w].pauses = 0 /\ gcall[w].resumes = 0 /\ ~gcall[w].slept)
    /\ [][GateAlternates]_vars

\* C22 amended for a gate that several callers share: a first sample >= pause_hi with
\* the gate not paused pauses the gate and emits a pause event on that sample; a call
\* returns only on a sample <= min(resume_lo, pause_hi) taken while the gate is paused,
\* emitting the resume event, or on a sample < pause_hi taken while the gate is not
\* paused, emitting nothing; a call whose first sample is < pause_hi with the gate not
\* paused returns at once with no event and no sleep; a call that no other call
\* overlaps behaves as stated; pause and resume events alternate, starting with pause.
C22_SharedGatePauseResume ==
    /\ [](\A w \in Workers :
            /\ (gcall[w].first >= gconf.pause /\ gcall[w].first # -1 /\ gcall[w].unpaused)
                    => gcall[w].pauses >= 1 /\ gcall[w].slept
            /\ gcall[w].how = "resumed"
                    => /\ gcall[w].resumes = 1
                       /\ gcall[w].last <= Min(gconf.resume, gconf.pause)
            /\ gcall[w].how = "clear"
                    => gcall[w].resumes = 0 /\ gcall[w].last < gconf.pause
            /\ (Returned(w) /\ gcall[w].first < gconf.pause /\ gcall[w].unpaused)
                    => gcall[w].pauses = 0 /\ gcall[w].resumes = 0 /\ ~gcall[w].slept
            /\ (Returned(w) /\ gcall[w].alone)
                    => IF gcall[w].first >= gconf.pause
                       THEN gcall[w].pauses = 1 /\ gcall[w].resumes = 1
                       ELSE gcall[w].pauses = 0 /\ gcall[w].resumes = 0)
    /\ [](gpaused <=> glast = "pause")
    /\ [][GateAlternates]_vars

\* a call paused the gate, another caller's sample resumed it, and the first call
\* returned on a sample below pause_hi without emitting the resume event
C22_Witness ==
    \E v, w \in Workers :
        /\ v # w
        /\ Returned(v) /\ gcall[v].how = "clear" /\ gcall[v].pauses = 1
        /\ Returned(w) /\ gcall[w].how = "resumed" /\ gcall[w].pauses = 0

\* ===========================================================================
\* Part 12. LLM workers: SectionSummaryWorker and EntityExtractionWorker handle a
\* chunk job (summarization/worker.py, entities/worker.py, summarization/client.py)
\* ===========================================================================

\* options.max_retries
MaxRetries == 1

\* deliveries of the job one behaviour may make
MaxLlmDeliveries == 2

LlmFrame == UNCHANGED <<qvars, pvars, bvars, dvars, fvars, avars, kvars, ivars, cvars, svvars, gvars, hvars, schvars, blvars, chvars>>

LlmKinds == {"summary", "entity"}

\* what one call of chat_completion can do: return a completion, fail with an HTTP
\* status (raise_for_status), fail on the network, or raise RuntimeError for a
\* response without choices
HttpStatuses == {400, 408, 429, 500, 503}

LlmResults ==
    [kind : {"ok", "network", "nochoices"}, status : {0}] \cup
    [kind : {"status"}, status : HttpStatuses]

\* a classification that retries on server errors only
ServerErrorsOnly(result) == result.kind = "status" /\ result.status >= 500

\* _summarize_with_retry / _extract_with_retry: the failures that are retried
Transient(result) ==
    \/ result.kind = "status" /\ (result.status \in {408, 429} \/ result.status >= 500)
    \/ result.kind = "network"

\* the completions an entity call can return: text that is not JSON, or a JSON value
\* that is an array, an object (with or without a member "entities") or anything else
Completions ==
    { [json |-> FALSE, top |-> "other", entities |-> "absent"] } \cup
    [json : {TRUE}, top : {"array", "other"}, entities : {"absent"}] \cup
    [json : {TRUE}, top : {"object"}, entities : {"absent", "array", "other"}]

\* _parse_entities: `data = data["entities"]` for an object that has the member
Unwrapped(raw) == IF raw.top = "object" /\ raw.entities # "absent" THEN raw.entities
                  ELSE raw.top

\* a parser that takes every completion
ParsesAnything(raw) == FALSE

\* _parse_entities raises ValueError: json.loads failed, or the value is not a list
ParseFails(raw) == ~raw.json \/ Unwrapped(raw) # "array"

\* parser fan-out: the job is pushed to a target queue; the model follows the copy on
\* one of them, the summary queue's or the entity queue's
LlmPush(k) ==
    /\ lq = "none"
    /\ ljob' = k
    /\ lq' = "queued"
    /\ UNCHANGED <<lpc, lrun, lanalysis, lentities, lparseerrors, ldeliv>>
    /\ LlmFrame

\* run: pop returns the job's message
LlmPop(w) ==
    /\ lpc[w] = "idle"
    /\ lq = "queued"
    /\ ldeliv < MaxLlmDeliveries
    /\ ldeliv' = ldeliv + 1
    /\ lq' = "inflight"
    /\ lpc' = [lpc EXCEPT ![w] = "load"]
    /\ lrun' = [lrun EXCEPT ![w] = NoHandling]
    /\ UNCHANGED <<ljob, lanalysis, lentities, lparseerrors>>
    /\ LlmFrame

\* the queue's expiry recovery: the visibility timeout of the delivery has passed and
\* the message is back on the queue
LlmReclaim ==
    /\ lq = "inflight"
    /\ lq' = "queued"
    /\ UNCHANGED <<ljob, lpc, lrun, lanalysis, lentities, lparseerrors, ldeliv>>
    /\ LlmFrame

\* how a handling ends: _handle_message returns True (run goes on to ack) or False
Ends(w, run, outcome, acknowledge) ==
    /\ lrun' = [lrun EXCEPT ![w] = [run EXCEPT !.outcome = outcome]]
    /\ lpc' = [lpc EXCEPT ![w] = IF acknowledge THEN "ack" ELSE "idle"]

\* _handle_message: _load_section; a job whose filing or section is gone is acked
LlmLoad(w, found) ==
    /\ lpc[w] = "load"
    /\ IF found
       THEN /\ lpc' = [lpc EXCEPT ![w] = "reserve"]
            /\ UNCHANGED lrun
       ELSE Ends(w, lrun[w], "missing", TRUE)
    /\ UNCHANGED <<ljob, lq, lanalysis, lentities, lparseerrors, ldeliv>>
    /\ LlmFrame

\* a worker that goes on to the LLM whatever the budget said
CallsAnyway(answer) == "llm"

\* _handle_message: BudgetExceededError leads to the cooldown sleep, anything else to
\* the retry loop
AfterReserve(answer) == IF answer = "denied" THEN "cooldown" ELSE "llm"

\* _handle_message: budget.reserve; without a limiter there is nothing to reserve; a
\* denied reservation goes to the cooldown sleep
LlmReserve(w, answer) ==
    /\ lpc[w] = "reserve"
    /\ lrun' = [lrun EXCEPT ![w].budget = answer]
    /\ lpc' = [lpc EXCEPT ![w] = AfterReserve(answer)]
    /\ UNCHANGED <<ljob, lq, lanalysis, lentities, lparseerrors, ldeliv>>
    /\ LlmFrame

\* _handle_message: the cooldown sleep is over; return False
LlmCooldown(w) ==
    /\ lpc[w] = "cooldown"
    /\ Ends(w, lrun[w], "deferred", FALSE)
    /\ UNCHANGED <<ljob, lq, lanalysis, lentities, lparseerrors, ldeliv>>
    /\ LlmFrame

\* the reservation after release()
Released(budget) == IF budget = "held" THEN "released" ELSE budget

\* the reservation after commit(total_tokens)
Committed(budget) == IF budget = "held" THEN "committed" ELSE budget

\* one turn of the retry loop: a call of chat_completion and what the loop and
\* _handle_message make of its result, up to the next call, the parse or the return
LlmCall(w, result) ==
    /\ lpc[w] = "llm"
    /\ LET run == [lrun[w] EXCEPT !.calls = @ + 1, !.last = result]
       IN  IF result.kind = "ok"
           THEN /\ lrun' = [lrun EXCEPT ![w] = run]
                /\ lpc' = [lpc EXCEPT ![w] = IF ljob = "summary" THEN "persist"
                                              ELSE "parse"]
           ELSE IF Transient(result)
           THEN IF run.attempt + 1 > MaxRetries
                THEN Ends(w, [run EXCEPT !.attempt = @ + 1,
                                         !.budget = Released(@)], "retryable", FALSE)
                ELSE /\ lrun' = [lrun EXCEPT ![w] = [run EXCEPT !.attempt = @ + 1]]
                     /\ UNCHANGED lpc
           ELSE Ends(w, [run EXCEPT !.budget = Released(@)], "fatal", TRUE)
    /\ UNCHANGED <<ljob, lq, lanalysis, lentities, lparseerrors, ldeliv>>
    /\ LlmFrame

\* SectionSummaryWorker._handle_message: _persist_analysis, commit of the reservation,
\* return True
LlmPersistSummary(w) ==
    /\ lpc[w] = "persist"
    /\ lanalysis' = lanalysis + 1
    /\ Ends(w, [lrun[w] EXCEPT !.wrote = TRUE, !.budget = Committed(@)], "done", TRUE)
    /\ UNCHANGED <<ljob, lq, lentities, lparseerrors, ldeliv>>
    /\ LlmFrame

\* EntityExtractionWorker._handle_message: _parse_entities, then either the parse
\* error (counted, return True) or _persist_entities, commit, return True
LlmParseEntities(w, raw) ==
    /\ lpc[w] = "parse"
    /\ IF ParseFails(raw)
       THEN /\ lparseerrors' = lparseerrors + 1
            /\ Ends(w, [lrun[w] EXCEPT !.raw = raw], "parse", TRUE)
            /\ UNCHANGED <<lanalysis, lentities>>
       ELSE /\ lanalysis' = lanalysis + 1
            /\ lentities' = lentities + 1
            /\ Ends(w, [lrun[w] EXCEPT !.raw = raw, !.wrote = TRUE,
                                       !.budget = Committed(@)], "done", TRUE)
            /\ UNCHANGED lparseerrors
    /\ UNCHANGED <<ljob, lq, ldeliv>>
    /\ LlmFrame

\* run: queue.ack(message)
LlmAck(w) ==
    /\ lpc[w] = "ack"
    /\ lq' = "acked"
    /\ lpc' = [lpc EXCEPT ![w] = "idle"]
    /\ UNCHANGED <<ljob, lrun, lanalysis, lentities, lparseerrors, ldeliv>>
    /\ LlmFrame

LlmNext ==
    \/ \E k \in LlmKinds : LlmPush(k)
    \/ \E w \in Workers : LlmPop(w)
    \/ LlmReclaim
    \/ \E w \in Workers, found \in BOOLEAN : LlmLoad(w, found)
    \/ \E w \in Workers, answer \in {"none", "held", "denied"} : LlmReserve(w, answer)
    \/ \E w \in Workers : LlmCooldown(w)
    \/ \E w \in Workers, result \in LlmResults : LlmCall(w, result)
    \/ \E w \in Workers : LlmPersistSummary(w)
    \/ \E w \in Workers, raw \in Completions : LlmParseEntities(w, raw)
    \/ \E w \in Workers : LlmAck(w)

LlmSpec == AllIdle /\ [][LlmNext]_vars

\* C25: a handling whose reservation the budget denied makes no LLM call and writes no
\* Analysis row, goes through the cooldown sleep and returns False; none of its steps
\* acks or otherwise touches the queue or the tables, so the message stays as the pop
\* left it and the queue's expiry recovery can offer it again.
C25_BudgetDeniedDefers ==
    /\ [](\A w \in Workers : lrun[w].budget = "denied" =>
            /\ lrun[w].calls = 0
            /\ ~lrun[w].wrote
            /\ \/ lpc[w] = "cooldown" /\ lrun[w].outcome = "-"
               \/ lpc[w] = "idle" /\ lrun[w].outcome = "deferred")
    /\ [][\A w \in Workers :
            (lrun'[w].budget = "denied" /\ lrun'[w] # lrun[w]) =>
                /\ lq' = lq
                /\ lanalysis' = lanalysis
                /\ lentities' = lentities]_vars

\* w1 was denied and returned, the delivery expired, and w2 now holds the same job
C25_Witness ==
    /\ lrun["w1"].outcome = "deferred"
    /\ lpc["w1"] = "idle"
    /\ lanalysis = 0
    /\ ldeliv = 2
    /\ lq = "inflight"
    /\ lpc["w2"] = "load"

\* C28: a handling of a summary job makes at most max_retries + 1 LLM calls. A call
\* failing with 408, 429, a status of 500 or more, or a network error is followed by
\* another call while retries remain; when they are used up the handling returns
\* without ack, after exactly max_retries + 1 calls. A call failing with any other
\* HTTP status is the handling's last and, when no retry went before it, its only one;
\* run then acks the job. Neither kind of handling writes an Analysis row.
C28_SummaryRetryClassification ==
    /\ [](LET retried(r) ==
                  \/ r.kind = "status" /\ (r.status \in {408, 429} \/ r.status >= 500)
                  \/ r.kind = "network"
              dropped(r) == r.kind = "status" /\ ~retried(r)
          IN  ljob = "summary" => \A w \in Workers :
                /\ lrun[w].calls <= MaxRetries + 1
                /\ (retried(lrun[w].last) /\ lrun[w].attempt <= MaxRetries) =>
                        lpc[w] = "llm" /\ lrun[w].outcome = "-"
                /\ (retried(lrun[w].last) /\ lrun[w].attempt > MaxRetries) =>
                        /\ lrun[w].calls = MaxRetries + 1
                        /\ lrun[w].outcome = "retryable"
                        /\ lpc[w] = "idle"
                        /\ ~lrun[w].wrote
                /\ dropped(lrun[w].last) =>
                        /\ lrun[w].calls = lrun[w].attempt + 1
                        /\ lrun[w].outcome = "fatal"
                        /\ lpc[w] \in {"ack", "idle"}
                        /\ ~lrun[w].wrote)
    /\ [][ljob = "summary" => \A w \in Workers :
                /\ (lrun'[w] # lrun[w] /\ lrun'[w].outcome \in {"retryable", "fatal"}) =>
                        lanalysis' = lanalysis /\ lq' = lq
                /\ (lrun[w].outcome = "fatal" /\ lpc[w] = "ack" /\ lpc'[w] # "ack") =>
                        lq' = "acked"
                /\ (lrun[w].outcome = "retryable" /\ lrun'[w] = lrun[w]) =>
                        lpc'[w] = lpc[w]]_vars

\* w1 used up its retries on 503 and returned without ack; the job came back and w2
\* dropped it after a single call answered 400
C28_Witness ==
    /\ ljob = "summary"
    /\ lrun["w1"].outcome = "retryable"
    /\ lrun["w1"].calls = MaxRetries + 1
    /\ lrun["w1"].last = [kind |-> "status", status |-> 503]
    /\ lrun["w2"].outcome = "fatal"
    /\ lrun["w2"].calls = 1
    /\ lrun["w2"].last = [kind |-> "status", status |-> 400]
    /\ lq = "acked"
    /\ lanalysis = 0

\* C29: when the completion of an entity job is not JSON, or is JSON that is not an
\* array once an object's member "entities" has been taken in its place, the handling
\* writes no Entity rows and no Analysis row, adds exactly one to the parse error
\* counter and returns True; run then acks the job, and an acked job is not delivered
\* again.
C29_EntityParseFailure ==
    /\ [](LET array(raw) == /\ raw.json
                            /\ \/ raw.top = "array"
                               \/ /\ raw.top = "object"
                                  /\ raw.entities = "array"
          IN  ljob = "entity" => \A w \in Workers :
                (lrun[w].raw # NoCompletion /\ ~array(lrun[w].raw)) =>
                    /\ lrun[w].outcome = "parse"
                    /\ ~lrun[w].wrote
                    /\ lpc[w] \in {"ack", "idle"})
    /\ [][ljob = "entity" => \A w \in Workers :
            /\ (lrun'[w] # lrun[w] /\ lrun'[w].outcome = "parse") =>
                    /\ lentities' = lentities
                    /\ lanalysis' = lanalysis
                    /\ lparseerrors' = lparseerrors + 1
                    /\ lpc'[w] = "ack"
            /\ (lrun'[w] = lrun[w] \/ lrun'[w].outcome # "parse") =>
                    lparseerrors' = lparseerrors \/ \E v \in Workers \ {w} :
                        lrun'[v] # lrun[v] /\ lrun'[v].outcome = "parse"
            /\ (lrun[w].outcome = "parse" /\ lpc[w] = "ack" /\ lpc'[w] # "ack") =>
                    lq' = "acked"
            /\ lq = "acked" => lq' = "acked" /\ ldeliv' = ldeliv]_vars

\* the completion was an object whose member "entities" is not an array; the job is
\* acked with one parse error counted and nothing written
C29_Witness ==
    /\ ljob = "entity"
    /\ lrun["w1"].outcome = "parse"
    /\ lrun["w1"].raw = [json |-> TRUE, top |-> "object", entities |-> "other"]
    /\ lq = "acked"
    /\ lparseerrors = 1
    /\ lentities = 0
    /\ lanalysis = 0

\* ===========================================================================
\* Part 13. Diff handler: DiffWorker._handle_message on one DiffTask, from the two
\* sections it loads to the rows it writes (diff/worker.py)
\* ===========================================================================

\* DiffOptions.max_retries
MaxDiffRetries == 1

\* deliveries of the task one behaviour may make
MaxDiffDeliveries == 2

\* expected_sections of the task's FilingDiff
DiffExpected == 1

\* _mark_failed: message[:2000]
ErrorLimit == 2000

\* lengths of str(exc): below the limit, at it, above it
ErrorLengths == {ErrorLimit - 1, ErrorLimit, ErrorLimit + 1}

HandlerFrame == UNCHANGED <<qvars, pvars, bvars, dvars, fvars, avars, kvars, ivars, cvars, svvars, gvars, lvars, schvars, blvars, chvars>>

\* section contents as str.splitlines() returns them: no line, one blank line, or one
\* line of text
TextLines == {<<>>, <<"">>, <<"a">>, <<"b">>}

\* what _load_metadata finds for a side of the task: no section, or a section
Sections == {NoSection} \cup [present : {TRUE}, lines : TextLines]

RECURSIVE StripLeading(_)
StripLeading(lines) ==
    IF lines # <<>> /\ Head(lines) = "" THEN StripLeading(Tail(lines)) ELSE lines

RECURSIVE StripTrailing(_)
StripTrailing(lines) ==
    IF lines # <<>> /\ lines[Len(lines)] = ""
    THEN StripTrailing(SubSeq(lines, 1, Len(lines) - 1))
    ELSE lines

\* a comparison of the texts as they are
Unstripped(lines) == lines

\* str.strip() on a text given by its lines
Strip(lines) == StripTrailing(StripLeading(lines))

\* difflib.unified_diff: nothing for equal inputs, else the two header lines, the
\* removed and the added lines
UnifiedDiff(prev, curr) ==
    IF prev = curr THEN <<>>
    ELSE <<[sign |-> "---", line |-> "previous"], [sign |-> "+++", line |-> "current"]>>
         \o [i \in 1..Len(prev) |-> [sign |-> "-", line |-> prev[i]]]
         \o [i \in 1..Len(curr) |-> [sign |-> "+", line |-> curr[i]]]

\* _build_diff_snippet(previous_text or None, current_text or None), as lines
BuildDiffSnippet(previous, current) ==
    IF previous.lines = <<>> /\ current.lines = <<>> THEN <<>>
    ELSE UnifiedDiff(previous.lines, current.lines)

\* what one call of chat_completion can do (as in part 12)
DiffStatuses == {400, 408, 429, 500, 501}

DiffResults ==
    [kind : {"ok", "network", "nochoices"}, status : {0}] \cup
    [kind : {"status"}, status : DiffStatuses]

\* _diff_with_retry: the failures that are retried
DiffTransient(result) ==
    \/ result.kind = "status" /\ result.status \in {429, 500, 502, 503, 504}
    \/ result.kind = "network"

\* a change as the model answers it, after _normalize_change
LlmChange == [change_type |-> "update", impact |-> "high", confidence |-> "0.8"]

\* the changes _handle_message synthesises
Addition == [change_type |-> "addition", impact |-> "medium", confidence |-> "1.0"]

Removal == [change_type |-> "removal", impact |-> "medium", confidence |-> "1.0"]

\* the completions a diff call can return: text _parse_changes rejects, an empty array,
\* an array with a change
DiffAnswers ==
    {[valid |-> FALSE, changes |-> <<>>],
     [valid |-> TRUE, changes |-> <<>>],
     [valid |-> TRUE, changes |-> <<LlmChange>>]}

\* _handle_message: `if not changes:` synthesise an addition or a removal when exactly
\* one side is missing
Synthesised(task, changes) ==
    IF changes # <<>> THEN changes
    ELSE IF ~task.previous.present /\ task.current.present THEN <<Addition>>
    ELSE IF ~task.current.present /\ task.previous.present THEN <<Removal>>
    ELSE <<>>

\* _schedule_diff_jobs: the row and the task of an ordinal that at least one of the
\* two filings has; the task is pushed
HandlerSchedule(current, previous) ==
    /\ hq = "none"
    /\ current.present \/ previous.present
    /\ htask' = [current |-> current, previous |-> previous]
    /\ hq' = "queued"
    /\ hstatus' = "pending"
    /\ UNCHANGED <<hpc, hrun, hprocessed, hrows, hanalysis, hdeliv, herror>>
    /\ HandlerFrame

\* run: pop returns the task's message
HandlerPop(w) ==
    /\ hpc[w] = "idle"
    /\ hq = "queued"
    /\ hdeliv < MaxDiffDeliveries
    /\ hdeliv' = hdeliv + 1
    /\ hq' = "inflight"
    /\ hpc' = [hpc EXCEPT ![w] = "popped"]
    /\ hrun' = [hrun EXCEPT ![w] = NoDiffRun]
    /\ UNCHANGED <<htask, hstatus, hprocessed, hrows, hanalysis, herror>>
    /\ HandlerFrame

\* the diff queue's expiry recovery puts the unacked message back
HandlerReclaim ==
    /\ hq = "inflight"
    /\ hq' = "queued"
    /\ UNCHANGED <<htask, hpc, hrun, hstatus, hprocessed, hrows, hanalysis, hdeliv,
                   herror>>
    /\ HandlerFrame

\* how a handling ends: _handle_message returns True (run goes on to ack) or False
HandlerEnds(w, run, outcome, acknowledge) ==
    /\ hrun' = [hrun EXCEPT ![w] = [run EXCEPT !.outcome = outcome]]
    /\ hpc' = [hpc EXCEPT ![w] = IF acknowledge THEN "ack" ELSE "idle"]

\* _finalize_noop and the tail of _persist_results: status and processed_sections
HandlerCounts ==
    /\ hprocessed' = hprocessed + 1
    /\ hstatus' = Counted(Started(hstatus), hprocessed + 1, DiffExpected)

\* a last_error that takes the whole message
Untruncated(length) == length

\* _mark_failed: truncated = message[:2000], by the lengths
Truncated(length) == Min(length, ErrorLimit)

\* _mark_failed(diff_id, message), the message given by its length
HandlerMarkFailed(message) ==
    /\ hstatus' = "failed"
    /\ herror' = [set |-> TRUE, length |-> Truncated(message), of |-> message]
    /\ hprocessed' = DiffExpected
    /\ UNCHANGED <<hrows, hanalysis>>

\* _persist_results: the ordinal's rows are replaced by the changes; the job's
\* Analysis row is written when there was a completion and deleted when there was none;
\* last_error = None
HandlerPersist(changes, completion) ==
    /\ hrows' = changes
    /\ hanalysis' = completion
    /\ herror' = NoError
    /\ HandlerCounts

\* _handle_message up to the LLM call: equal texts are a no-op; an empty snippet skips
\* the call and persists the synthesised change; anything else goes to the LLM
HandlerBegin(w) ==
    /\ hpc[w] = "popped"
    /\ LET snippet == BuildDiffSnippet(htask.previous, htask.current)
           run == [hrun[w] EXCEPT !.snippet = snippet]
       IN  IF /\ htask.current.present /\ htask.previous.present
              /\ Strip(htask.current.lines) = Strip(htask.previous.lines)
           THEN /\ HandlerCounts
                /\ HandlerEnds(w, hrun[w], "noop", TRUE)
                /\ UNCHANGED <<hrows, hanalysis, herror>>
           ELSE IF snippet # <<>>
           THEN /\ hrun' = [hrun EXCEPT ![w] = run]
                /\ hpc' = [hpc EXCEPT ![w] = "llm"]
                /\ UNCHANGED <<hstatus, hprocessed, hrows, hanalysis, herror>>
           ELSE /\ HandlerPersist(Synthesised(htask, <<>>), FALSE)
                /\ HandlerEnds(w, run, "persisted", TRUE)
    /\ UNCHANGED <<htask, hq, hdeliv>>
    /\ HandlerFrame

\* one turn of _diff_with_retry: a call of chat_completion and what the loop and
\* _handle_message make of its result, up to the next call, the parse or the return
HandlerCall(w, result) ==
    /\ hpc[w] = "llm"
    /\ LET run == [hrun[w] EXCEPT !.calls = @ + 1, !.last = result]
       IN  IF result.kind = "ok"
           THEN /\ hrun' = [hrun EXCEPT ![w] = run]
                /\ hpc' = [hpc EXCEPT ![w] = "parse"]
                /\ UNCHANGED <<hstatus, hprocessed, hrows, hanalysis, herror>>
           ELSE IF DiffTransient(result) /\ run.attempt + 1 <= MaxDiffRetries
           THEN /\ hrun' = [hrun EXCEPT ![w] = [run EXCEPT !.attempt = @ + 1]]
                /\ UNCHANGED <<hpc, hstatus, hprocessed, hrows, hanalysis, herror>>
           ELSE /\ \E message \in ErrorLengths : HandlerMarkFailed(message)
                /\ HandlerEnds(w, [run EXCEPT !.attempt = IF DiffTransient(result)
                                                           THEN @ + 1 ELSE @],
                               "failed", TRUE)
    /\ UNCHANGED <<htask, hq, hdeliv>>
    /\ HandlerFrame

\* _handle_message after the call: _parse_changes, then _mark_failed on ValueError or
\* _persist_results with the changes (synthesised when the answer has none)
HandlerParse(w, answer) ==
    /\ hpc[w] = "parse"
    /\ IF ~answer.valid
       THEN /\ \E message \in ErrorLengths : HandlerMarkFailed(message)
            /\ HandlerEnds(w, hrun[w], "failed", TRUE)
       ELSE /\ HandlerPersist(Synthesised(htask, answer.changes), TRUE)
            /\ HandlerEnds(w, hrun[w], "persisted", TRUE)
    /\ UNCHANGED <<htask, hq, hdeliv>>
    /\ HandlerFrame

\* run: queue.ack(message)
HandlerAck(w) ==
    /\ hpc[w] = "ack"
    /\ hq' = "acked"
    /\ hpc' = [hpc EXCEPT ![w] = "idle"]
    /\ UNCHANGED <<htask, hrun, hstatus, hprocessed, hrows, hanalysis, hdeliv, herror>>
    /\ HandlerFrame

HandlerNext ==
    \/ \E current, previous \in Sections : HandlerSchedule(current, previous)
    \/ \E w \in Workers : HandlerPop(w)
    \/ HandlerReclaim
    \/ \E w \in Workers : HandlerBegin(w)
    \/ \E w \in Workers, result \in DiffResults : HandlerCall(w, result)
    \/ \E w \in Workers, answer \in DiffAnswers : HandlerParse(w, answer)
    \/ \E w \in Workers : HandlerAck(w)

HandlerSpec == AllIdle /\ [][HandlerNext]_vars

\* C26: in a handling of a diff task, a call failing with 408, 429, a status of 500 or
\* more, or a network error is followed by another call while retries remain; the
\* call that uses them up ends the handling without ack and without a write to the
\* Diff row, so the message stays for the expiry recovery; a handling that ends
\* "failed" and acked had a last call (or a parse) that did not fail transiently.
C26_DiffRetryMirrorsSummary ==
    [][LET retried(r) ==
               \/ r.kind = "status" /\ (r.status \in {408, 429} \/ r.status >= 500)
               \/ r.kind = "network"
       IN  \A w \in Workers :
            (hpc[w] = "llm" /\ hrun'[w].calls = hrun[w].calls + 1
                /\ retried(hrun'[w].last)) =>
                    IF hrun'[w].calls <= MaxDiffRetries
                    THEN hpc'[w] = "llm" /\ hstatus' = hstatus
                    ELSE /\ hpc'[w] = "idle"
                         /\ hq' = hq
                         /\ hstatus' = hstatus
                         /\ hprocessed' = hprocessed]_vars

\* C27: when exactly one of the task's two sections exists, no handling of the task
\* calls the LLM, and a handling that has returned left exactly one row for the
\* ordinal, the synthesised one (addition when only the current section exists,
\* removal when only the previous one does, impact medium, confidence 1.0), and no
\* Analysis row for the job.
C27_OneSidedIsSynthesised ==
    (htask.current.present # htask.previous.present) =>
        \A w \in Workers :
            /\ hrun[w].calls = 0
            /\ hpc[w] # "llm"
            /\ hrun[w].outcome # "-" =>
                    /\ hrun[w].outcome = "persisted"
                    /\ hrows = IF htask.current.present THEN <<Addition>> ELSE <<Removal>>
                    /\ ~hanalysis

\* C35: a handling that was granted a reservation and has ended has finalised it:
\* committed when it wrote its result, released on every other path; no ended handling
\* still holds its reservation.
C35_ReservationFinalised ==
    \A w \in Workers :
        (lrun[w].outcome # "-" /\ lrun[w].budget \notin {"-", "none", "denied"}) =>
            lrun[w].budget = IF lrun[w].wrote THEN "committed" ELSE "released"

\* C32: when both sections of the task exist and their contents are equal once
\* stripped (the same line, or nothing but blank lines on both sides), no handling of
\* the task calls the LLM; a handling ends as a no-op that leaves the SectionDiff rows
\* and the Analysis row alone, adds exactly 1 to processed_sections, sets COMPLETED
\* when that reaches expected_sections, and is acked.
C32_EqualSectionsAreNoop ==
    /\ [](LET blank(lines) == \A i \in 1..Len(lines) : lines[i] = ""
              same == \/ htask.current.lines = htask.previous.lines
                      \/ blank(htask.current.lines) /\ blank(htask.previous.lines)
          IN  (htask.current.present /\ htask.previous.present /\ same) =>
                \A w \in Workers :
                    /\ hrun[w].calls = 0
                    /\ hpc[w] \in {"idle", "popped", "ack"}
                    /\ hrun[w].outcome \in {"-", "noop"}
                    /\ hpc[w] = "ack" => hrun[w].outcome = "noop")
    /\ [][\A w \in Workers :
            /\ (hpc[w] = "popped" /\ hrun'[w].outcome = "noop") =>
                    /\ hprocessed' = hprocessed + 1
                    /\ hrows' = hrows
                    /\ hanalysis' = hanalysis
                    /\ hprocessed' >= DiffExpected => hstatus' = "completed"
                    /\ hpc'[w] = "ack"
            /\ (hrun[w].outcome = "noop" /\ hpc[w] = "ack" /\ hpc'[w] # "ack") =>
                    hq' = "acked"]_vars

\* the current section is one blank line, the previous one is empty: the handling was
\* a no-op, the Diff is COMPLETED with one processed section and the task is acked
C32_Witness ==
    /\ htask.current = [present |-> TRUE, lines |-> <<"">>]
    /\ htask.previous = [present |-> TRUE, lines |-> <<>>]
    /\ hrun["w1"].outcome = "noop"
    /\ hstatus = "completed"
    /\ hprocessed = 1
    /\ hrows = <<>>
    /\ ~hanalysis
    /\ hq = "acked"

ScheduleFrame == UNCHANGED <<qvars, pvars, bvars, dvars, fvars, avars, kvars, ivars, cvars, svvars, gvars, lvars, hvars, blvars, chvars>>

\* sorted(set(current_map.keys()) | set(previous_map.keys()))
RECURSIVE SortedOrdinals(_)
SortedOrdinals(S) ==
    IF S = {} THEN <<>>
    ELSE LET least == CHOOSE x \in S : \A y \in S : x <= y
         IN  <<least>> \o SortedOrdinals(S \ {least})

\* change_kind of the task of an ordinal
ChangeKind(ordinal, sections) ==
    IF ordinal \in sections.current /\ ordinal \in sections.previous THEN "update"
    ELSE IF ordinal \in sections.current THEN "addition"
    ELSE "removal"

\* the loop over the ordinals: one DiffTask per ordinal that has a section on a side
BuildTasks(sections) ==
    LET ordinals == SortedOrdinals(sections.current \cup sections.previous)
    IN  [i \in 1..Len(ordinals) |->
            [section_ordinal |-> ordinals[i],
             change_kind |-> ChangeKind(ordinals[i], sections)]]

\* the sectioning transactions of the two filings have committed these sections and
\* the parser of the current filing goes on to _schedule_diff_jobs
ScheduleParsed(current, previous) ==
    /\ spc \in {"idle", "scheduled"}
    /\ ssections' = [current |-> current, previous |-> previous]
    /\ spc' = "parsed"
    /\ UNCHANGED <<srecord, stasks>>
    /\ ScheduleFrame

\* _schedule_diff_jobs: nothing is done when neither filing has a section; otherwise
\* the row is created or reset to PENDING with processed_sections 0, the tasks are
\* built, expected_sections is their number (SKIPPED when that is 0), and after the
\* commit the tasks are pushed
ScheduleDiffJobs ==
    /\ spc = "parsed"
    /\ spc' = "scheduled"
    /\ IF ssections.current = {} /\ ssections.previous = {}
       THEN /\ stasks' = <<>>
            /\ UNCHANGED srecord
       ELSE LET tasks == BuildTasks(ssections)
            IN  /\ srecord' = [exists |-> TRUE,
                               status |-> IF Len(tasks) = 0 THEN "skipped" ELSE "pending",
                               expected |-> Len(tasks),
                               processed |-> 0]
                /\ stasks' = tasks
    /\ UNCHANGED ssections
    /\ ScheduleFrame

\* a diff worker has handled a task of the row: _persist_results or _finalize_noop
ScheduleCounted ==
    /\ spc = "scheduled"
    /\ srecord.exists
    /\ srecord.processed < srecord.expected
    /\ srecord' = [srecord EXCEPT
                     !.processed = @ + 1,
                     !.status = Counted(Started(srecord.status), srecord.processed + 1,
                                        srecord.expected)]
    /\ UNCHANGED <<ssections, stasks, spc>>
    /\ ScheduleFrame

ScheduleNext ==
    \/ \E current, previous \in SUBSET Ordinals : ScheduleParsed(current, previous)
    \/ ScheduleDiffJobs
    \/ ScheduleCounted

ScheduleSpec == AllIdle /\ [][ScheduleNext]_vars

MaxUpserts == 3

\* ArtifactSpec.kind of the artifacts _build_artifacts makes
BlobKinds == {"raw", "index"}

BlobFrame == UNCHANGED <<qvars, pvars, bvars, dvars, fvars, avars, kvars, ivars, cvars, svvars, gvars, lvars, hvars, schvars, chvars>>

RowsOfKind(rows, k) == {r \in rows : r.kind = k}

\* _handle_task stored an artifact of kind k and _persist_metadata opens its
\* transaction; the handling's location and checksum are value
UpsertBegin(w, k) ==
    /\ upsert[w].pc = "idle"
    /\ upserts < MaxUpserts
    /\ upserts' = upserts + 1
    /\ upsert' = [upsert EXCEPT ![w] =
                    [pc |-> "select", kind |-> k, value |-> upserts + 1, found |-> 0]]
    /\ UNCHANGED blobs
    /\ BlobFrame

\* _upsert_blob: the SELECT by (filing_id, kind) and scalar_one_or_none(), which
\* raises MultipleResultsFound on two rows; _handle_task then calls _mark_failed
UpsertSelect(w) ==
    /\ upsert[w].pc = "select"
    /\ LET rows == RowsOfKind(blobs, upsert[w].kind)
       IN  IF Cardinality(rows) > 1
           THEN upsert' = [upsert EXCEPT ![w] = NoUpsert]
           ELSE upsert' = [upsert EXCEPT
                             ![w].pc = "commit",
                             ![w].found = IF rows = {} THEN 0
                                          ELSE (CHOOSE r \in rows : TRUE).id]
    /\ UNCHANGED <<blobs, upserts>>
    /\ BlobFrame

\* the rows after the transaction of _persist_metadata commits: a new row when the
\* SELECT found none, else location and checksum of the row found are overwritten
UpsertedRows(rows, u) ==
    IF u.found = 0
    THEN rows \cup {[id |-> Cardinality(rows) + 1, kind |-> u.kind, value |-> u.value]}
    ELSE {IF r.id = u.found THEN [r EXCEPT !.value = u.value] ELSE r : r \in rows}

\* _persist_metadata: the flush and the commit when `async with session.begin()` ends
UpsertCommit(w) ==
    /\ upsert[w].pc = "commit"
    /\ blobs' = UpsertedRows(blobs, upsert[w])
    /\ upsert' = [upsert EXCEPT ![w] = NoUpsert]
    /\ UNCHANGED upserts
    /\ BlobFrame

BlobNext ==
    \/ \E w \in Workers, k \in BlobKinds : UpsertBegin(w, k)
    \/ \E w \in Workers : UpsertSelect(w)
    \/ \E w \in Workers : UpsertCommit(w)

BlobSpec == AllIdle /\ [][BlobNext]_vars

\* C36: after any handlings of download tasks, two workers handling the same accession
\* at once included, there is at most one FilingBlob row per (filing, kind), and when
\* a handling commits, the row of its kind holds the location and checksum it wrote.
C36_OneBlobPerKind ==
    /\ [](\A k \in BlobKinds : Cardinality(RowsOfKind(blobs, k)) <= 1)
    /\ [][\A w \in Workers :
            (upsert[w].pc = "commit" /\ upsert'[w].pc = "idle") =>
                \A r \in RowsOfKind(blobs', upsert[w].kind) : r.value = upsert[w].value]_vars

\* ===========================================================================
\* Part 16. Chunking: ChunkPlanner._chunk_section on the paragraphs of one section
\* (orchestration/planner.py). A paragraph is its number of words; a chunk names the
\* paragraphs that make its content by their position in the section.
\* ===========================================================================

\* paragraphs of the section
MaxParagraphs == 3

\* ChunkPlannerOptions
max_tokens_per_chunk == 800
min_tokens_per_chunk == 200
paragraph_overlap == 1

\* words of a paragraph: an empty one, one far below the minimum, one above the
\* minimum, one above the maximum
ParagraphWords == {0, 50, 200, 700}

ChunkingFrame == UNCHANGED <<qvars, pvars, bvars, dvars, fvars, avars, kvars, ivars, cvars, svvars, gvars, lvars, hvars, schvars, blvars>>

\* _estimate_tokens: 0 for the empty string, else max(1, ceil(words * 1.3))
EstimateTokens(empty, words) ==
    IF empty THEN 0
    ELSE LET scaled == (13 * words + 9) \div 10
         IN  IF scaled >= 1 THEN scaled ELSE 1

\* _estimate_tokens(paragraph): a stripped paragraph is empty exactly when it has no
\* word
ParagraphTokens(words) == EstimateTokens(words = 0, words)

RECURSIVE WordsOf(_, _)
WordsOf(paragraphs, group) ==
    IF group = <<>> THEN 0
    ELSE paragraphs[Head(group)] + WordsOf(paragraphs, Tail(group))

\* _estimate_tokens("\n\n".join(current_chunk)): the join of two or more paragraphs
\* is never the empty string
JoinedTokens(paragraphs, group) ==
    EstimateTokens(Len(group) = 1 /\ paragraphs[group[1]] = 0, WordsOf(paragraphs, group))

\* the chunks after current_chunk is closed: appended when its tokens reach
\* min_tokens_per_chunk, else left out
Closed(chunks, paragraphs, group) ==
    LET chunk_tokens == JoinedTokens(paragraphs, group)
    IN  IF chunk_tokens >= min_tokens_per_chunk
        THEN Append(chunks,
                    [start_index |-> Len(chunks) * paragraph_overlap,
                     end_index |-> Len(chunks) * paragraph_overlap + Len(group),
                     content |-> group,
                     estimated_tokens |-> chunk_tokens])
        ELSE chunks

\* _chunk_section: the loop over the paragraphs from position i on, then the last
\* chunk
RECURSIVE ChunkLoop(_, _, _, _, _)
ChunkLoop(paragraphs, i, chunks, current_chunk, current_tokens) ==
    IF i > Len(paragraphs)
    THEN IF current_chunk # <<>> THEN Closed(chunks, paragraphs, current_chunk)
         ELSE chunks
    ELSE LET paragraph_tokens == ParagraphTokens(paragraphs[i])
         IN  IF current_tokens + paragraph_tokens > max_tokens_per_chunk
                /\ current_chunk # <<>>
             THEN ChunkLoop(paragraphs, i + 1, Closed(chunks, paragraphs, current_chunk),
                            <<i>>, paragraph_tokens)
             ELSE ChunkLoop(paragraphs, i + 1, chunks, Append(current_chunk, i),
                            current_tokens + paragraph_tokens)

ChunkSection(paragraphs) == ChunkLoop(paragraphs, 1, <<>>, <<>>, 0)

\* ChunkPlanner.plan reaches a section whose content splits into these paragraphs
ChunkingInput(paragraphs) ==
    /\ chsection' = paragraphs
    /\ chresult' = NoChunking
    /\ ChunkingFrame

\* chunks = self._chunk_section(section)
ChunkingCall ==
    /\ chsection # <<>>
    /\ ~chresult.done
    /\ chresult' = [done |-> TRUE, chunks |-> ChunkSection(chsection)]
    /\ UNCHANGED chsection
    /\ ChunkingFrame

ChunkingNext ==
    \/ \E n \in 1..MaxParagraphs : \E paragraphs \in [1..n -> ParagraphWords] :
          ChunkingInput(paragraphs)
    \/ ChunkingCall

ChunkingSpec == AllIdle /\ [][ChunkingNext]_vars

\* the last n elements of a sequence (all of it when it is shorter)
LastOf(s, n) == SubSeq(s, Len(s) - Min(n, Len(s)) + 1, Len(s))

\* C37: _chunk_section drops no content: a section with non-empty content gets at
\* least one chunk, every paragraph that has text is in the content of some chunk,
\* and every chunk after the first starts with the last paragraph_overlap paragraphs
\* of the chunk before it.
C37_NoContentDropped ==
    chresult.done =>
        LET chunks == chresult.chunks
        IN  /\ (\E i \in DOMAIN chsection : chsection[i] > 0) => Len(chunks) >= 1
            /\ \A i \in DOMAIN chsection : chsection[i] > 0 =>
                   \E c \in DOMAIN chunks : \E p \in DOMAIN chunks[c].content :
                       chunks[c].content[p] = i
            /\ \A c \in DOMAIN chunks : c > 1 =>
                   LET before == LastOf(chunks[c - 1].content, paragraph_overlap)
                   IN  /\ Len(chunks[c].content) >= Len(before)
                       /\ SubSeq(chunks[c].content, 1, Len(before)) = before

====
